---- MODULE Spec2Model ----
(***************************************************************************)
(* A model of the crypto demo backend: the hash-chained ledger             *)
(* (models/blockchain.py, modules/blockchain_simulator.py) and the         *)
(* simulation control loop (routers/simulation.py, routers/crypto.py).     *)
(*                                                                         *)
(* Conventions.  Amounts and balances are whole token units.  A SHA-256    *)
(* digest is modelled as the tuple of the fields that are fed to it, so    *)
(* two digests are equal exactly when their inputs are equal.              *)
(***************************************************************************)
EXTENDS Integers, Sequences, FiniteSets, TLC

VARIABLES
    chain,                 \* Blockchain.chain
    pending_transactions,  \* Blockchain.pending_transactions
    ledger,                \* BlockchainSimulator.ledger (address -> balance)
    last_block_time,       \* BlockchainSimulator.last_block_time
    now,                   \* datetime.now().timestamp(), whole seconds
    ret,                   \* what the last call on the ledger returned
    cryptos,               \* routers/crypto.py: the keys of the cryptos registry
    crypto_data,           \* the module instances of every crypto created so far
    simulations,           \* routers/simulation.py: simulation id -> SimulationState
    simulation_tasks,      \* routers/simulation.py: the keys of simulation_tasks
    tasks,                 \* the event loop's run_simulation tasks
    tokenomics,            \* a TokenomicsEngine on its own
    price_sim,             \* a PriceSimulator on its own
    calls                  \* calls made on these two so far

ledgerVars == <<chain, pending_transactions, ledger, last_block_time>>

simVars == <<cryptos, crypto_data, simulations, simulation_tasks, tasks>>

unitVars == <<tokenomics, price_sim, calls>>

vars == <<chain, pending_transactions, ledger, last_block_time, now, ret,
          cryptos, crypto_data, simulations, simulation_tasks, tasks,
          tokenomics, price_sim, calls>>

----------------------------------------------------------------------------
(* Bounds of the model *)

MaxCalls == 3       \* accepted add_transaction calls plus create_block calls
MaxSims == 2        \* simulations started per run

(* Program constants *)

SYSTEM == "SYSTEM"
block_time == 2
NoBlockIndex == -1                 \* Transaction.block_index = None
ZeroHash == <<0>>                  \* "0" * 64
ForgedHash == <<1>>                \* a digest that no block produces

(* The inputs that are tried *)

Holders == {"A", "B"}
Senders == {"A", SYSTEM}
Amounts == {-1, 0, 1, 2}
Times == {0, block_time}           \* the clock readings
InitialBalance == [A |-> 2]

----------------------------------------------------------------------------
(* models/blockchain.py *)

\* Transaction._generate_hash: digest of (from, to, amount, timestamp).
Transaction_generate_hash(from, to, amount, ts) == <<from, to, amount, ts>>

\* Transaction(...): the hash is derived in model_post_init, block_index is None.
Transaction(from, to, amount, ts) ==
    [ tx_hash      |-> Transaction_generate_hash(from, to, amount, ts),
      from_address |-> from,
      to_address   |-> to,
      amount       |-> amount,
      timestamp    |-> ts,
      block_index  |-> NoBlockIndex ]

\* Block._generate_hash: digest of index, timestamp, the dumped transactions
\* (all six fields of each), previous_hash and nonce.
Block_generate_hash(b) ==
    <<b.index, b.timestamp, b.transactions, b.previous_hash, b.nonce>>

\* Block(index, previous_hash, transactions): the hash is derived in
\* model_post_init from the fields as they are at construction.
Block(index, previous_hash, transactions, ts) ==
    LET b == [ index         |-> index,
               timestamp     |-> ts,
               transactions  |-> transactions,
               previous_hash |-> previous_hash,
               hash          |-> <<>>,
               nonce         |-> 0 ]
    IN  [b EXCEPT !.hash = Block_generate_hash(b)]

\* Blockchain.model_post_init: the genesis block.
Genesis(ts) == Block(0, ZeroHash, <<>>, ts)

\* a get_latest_block that returns the first block (variant)
get_latest_block_First(c) == c[1]

\* Blockchain.get_latest_block
get_latest_block(c) == c[Len(c)]

\* an add_transaction that queues the transaction twice (variant)
Blockchain_add_transaction_Twice(pending, tx) == Append(Append(pending, tx), tx)

\* Blockchain.add_transaction
Blockchain_add_transaction(pending, tx) == Append(pending, tx)

\* a create_block that appends a new genesis block (variant)
Blockchain_create_block_Genesis(c, pending, ts) == Genesis(ts)

\* a create_block that seals an empty list whatever is pending (variant)
Blockchain_create_block_Empty(c, pending, ts) ==
    Block(Len(c), get_latest_block(c).hash, <<>>, ts)

\* Blockchain.create_block with no explicit list: the new block.
Blockchain_create_block(c, pending, ts) ==
    Block(Len(c), get_latest_block(c).hash, pending, ts)

\* Blockchain.is_valid: for i in range(1, len(chain)) check the linkage and
\* the stored hash against a fresh recomputation.
is_valid(c) ==
    \A i \in 2 .. Len(c) :
        /\ c[i].previous_hash = c[i - 1].hash
        /\ c[i].hash = Block_generate_hash(c[i])

----------------------------------------------------------------------------
(* modules/blockchain_simulator.py *)

\* dict.get(address, 0)
get_balance(l, a) == IF a \in DOMAIN l THEN l[a] ELSE 0

\* dict[address] = value
set_balance(l, a, v) == [x \in (DOMAIN l) \cup {a} |-> IF x = a THEN v ELSE l[x]]

\* the balance check that forgets the SYSTEM exemption's other half (variant)
insufficient_balance_Never(l, from, amount) == FALSE

\* line 34: from_addr != "SYSTEM" and self.ledger.get(from_addr, 0) < amount
insufficient_balance(l, from, amount) ==
    from # SYSTEM /\ get_balance(l, from) < amount

\* an amount check that lets zero through (variant)
invalid_amount_Negative(amount) == amount < 0

\* line 37: amount <= 0
invalid_amount(amount) == amount <= 0

\* add_transaction returns None
rejected(l, from, amount) ==
    insufficient_balance(l, from, amount) \/ invalid_amount(amount)

\* a ledger update that credits without debiting (variant)
update_ledger_NoDebit(l, from, to, amount) ==
    set_balance(l, to, get_balance(l, to) + amount)

\* lines 47-50: debit the sender unless it is SYSTEM, then credit the receiver
update_ledger(l, from, to, amount) ==
    LET debited == IF from # SYSTEM
                   THEN set_balance(l, from, get_balance(l, from) - amount)
                   ELSE l
    IN  set_balance(debited, to, get_balance(debited, to) + amount)

\* a create_block that leaves the transactions as the queue held them (variant)
stamp_block_index_Skipped(b) == b

\* a create_block that derives the hash again once the index is stamped (variant)
stamp_block_index_Rehashed(b) ==
    [b EXCEPT !.transactions =
        [i \in DOMAIN b.transactions |->
            [b.transactions[i] EXCEPT
                !.block_index = b.index,
                !.tx_hash = <<b.transactions[i].from_address,
                              b.transactions[i].to_address,
                              b.transactions[i].amount,
                              b.transactions[i].timestamp, b.index>>]]]

\* lines 62-64: stamp block_index on the transactions of the sealed block
stamp_block_index(b) ==
    [b EXCEPT !.transactions =
        [i \in DOMAIN b.transactions |->
            [b.transactions[i] EXCEPT !.block_index = b.index]]]

\* BlockchainSimulator.get_total_transactions
get_total_transactions(c) ==
    LET RECURSIVE total(_)
        total(n) == IF n = 0 THEN 0 ELSE Len(c[n].transactions) + total(n - 1)
    IN  total(Len(c))

\* sum(ledger.values())
RECURSIVE SumOver(_, _)
SumOver(l, S) ==
    IF S = {} THEN 0
    ELSE LET a == CHOOSE x \in S : TRUE IN l[a] + SumOver(l, S \ {a})

total_balance(l) == SumOver(l, DOMAIN l)

----------------------------------------------------------------------------
(* The ledger driven directly: BlockchainSimulator(), initialize(dist), then *)
(* any sequence of add_transaction and create_block calls.                   *)

\* the distributions initialize() is given: non-negative balances of some holders
Distributions ==
    { [a \in S |-> InitialBalance[a]] : S \in SUBSET DOMAIN InitialBalance }

\* the calls that changed the ledger so far: sealed blocks and accepted transactions
calls_made ==
    (Len(chain) - 1) + get_total_transactions(chain) + Len(pending_transactions)

\* prices are counted in units of min_price (0.0001) and kept as a fraction
\* <<numerator, denominator>> with a positive denominator
Price(n) == <<n, 1>>

\* TokenomicsEngine(config) followed by initialize(crypto)
TokenomicsEngine(total_supply, block_reward, circulating_supply, current_price) ==
    [ total_supply       |-> total_supply,
      block_reward       |-> block_reward,
      circulating_supply |-> circulating_supply,
      current_price      |-> current_price,
      buy_pressure       |-> <<0, 1>>,
      sell_pressure      |-> <<0, 1>>,
      price_history      |-> <<>> ]

\* PriceSimulator(initial_price, volatility), volatility in percent
PriceSimulator(initial_price, volatility) ==
    [ initial_price     |-> initial_price,
      current_price     |-> initial_price,
      volatility        |-> volatility,
      price_history     |-> << <<0, initial_price>> >>,
      trend             |-> <<0, 1>>,
      mean_price        |-> initial_price,
      support_levels    |-> <<>>,
      resistance_levels |-> <<>>,
      all_time_high     |-> initial_price,
      all_time_low      |-> initial_price,
      price_changes     |-> <<>> ]

\* the engine and the price process of the specifications that do not use them
InitUnits ==
    /\ tokenomics = TokenomicsEngine(0, 0, 0, Price(100))
    /\ price_sim = PriceSimulator(Price(100), 5)
    /\ calls = 0

\* the registries of the routers at import time
InitRegistries ==
    /\ cryptos = {}
    /\ crypto_data = <<>>
    /\ simulations = <<>>
    /\ simulation_tasks = {}
    /\ tasks = <<>>

Init ==
    /\ now = 0
    /\ chain = <<Genesis(0)>>
    /\ pending_transactions = <<>>
    /\ last_block_time = 0
    /\ ledger \in Distributions
    /\ ret = "initialized"
    /\ InitRegistries
    /\ InitUnits

\* wall-clock time passes
AdvanceClock ==
    /\ now' \in {t \in Times : t > now}
    /\ UNCHANGED <<chain, pending_transactions, ledger, last_block_time, ret>>
    /\ UNCHANGED simVars
    /\ UNCHANGED unitVars

\* BlockchainSimulator.add_transaction(from, to, amount) returning None
AddTransactionRejected(from, to, amount) ==
    /\ ret' = "None"
    /\ rejected(ledger, from, amount)
    /\ UNCHANGED <<chain, pending_transactions, ledger, last_block_time, now>>
    /\ UNCHANGED simVars
    /\ UNCHANGED unitVars

\* BlockchainSimulator.add_transaction(from, to, amount) returning the transaction
AddTransactionAccepted(from, to, amount) ==
    /\ ret' = "Transaction"
    /\ ~rejected(ledger, from, amount)
    /\ calls_made < MaxCalls
    /\ ledger' = update_ledger(ledger, from, to, amount)
    /\ pending_transactions' =
           Blockchain_add_transaction(pending_transactions,
                                      Transaction(from, to, amount, now))
    /\ UNCHANGED <<chain, last_block_time, now>>
    /\ UNCHANGED simVars
    /\ UNCHANGED unitVars

\* a block is always due (variant)
should_create_block_Always(time_since_last, pending) == TRUE

\* the elapsed time alone decides (variant)
should_create_block_IgnorePending(time_since_last, pending) ==
    time_since_last >= block_time

\* BlockchainSimulator.should_create_block, on the time since the last block
should_create_block(time_since_last, pending) ==
    time_since_last >= block_time /\ Len(pending) > 0

\* BlockchainSimulator.should_create_block()
ShouldCreateBlock ==
    /\ ret' = IF should_create_block(now - last_block_time, pending_transactions)
              THEN "True"
              ELSE "False"
    /\ UNCHANGED <<chain, pending_transactions, ledger, last_block_time, now>>
    /\ UNCHANGED simVars
    /\ UNCHANGED unitVars

\* BlockchainSimulator.create_block()
CreateBlock ==
    /\ calls_made < MaxCalls
    /\ chain' = Append(chain,
                       stamp_block_index(
                           Blockchain_create_block(chain, pending_transactions, now)))
    /\ pending_transactions' = <<>>
    /\ last_block_time' = now
    /\ ret' = "Block"
    /\ UNCHANGED <<ledger, now>>
    /\ UNCHANGED simVars
    /\ UNCHANGED unitVars

\* BlockchainSimulator.add_transaction(from, to, amount)
add_transaction(from, to, amount) ==
    \/ AddTransactionRejected(from, to, amount)
    \/ AddTransactionAccepted(from, to, amount)

Next ==
    \/ AdvanceClock
    \/ \E from \in Senders, to \in Holders, amount \in Amounts :
           AddTransactionRejected(from, to, amount)
    \/ \E from \in Senders, to \in Holders, amount \in Amounts :
           AddTransactionAccepted(from, to, amount)
    \/ CreateBlock
    \/ ShouldCreateBlock

Spec == Init /\ [][Next]_vars

----------------------------------------------------------------------------
(* The ledger with a test harness that overwrites one stored field of one   *)
(* block and then asks is_valid().                                          *)

\* the values a field is overwritten with
TamperValues(c) ==
    {ZeroHash, ForgedHash} \cup {c[j].hash : j \in DOMAIN c}

\* chain[i].hash = v, written directly
TamperHash(i, v) ==
    /\ ret # "tampered"
    /\ v # chain[i].hash
    /\ chain' = [chain EXCEPT ![i].hash = v]
    /\ ret' = "tampered"
    /\ UNCHANGED <<pending_transactions, ledger, last_block_time, now>>
    /\ UNCHANGED simVars
    /\ UNCHANGED unitVars

\* chain[i].previous_hash = v, written directly
TamperPreviousHash(i, v) ==
    /\ ret # "tampered"
    /\ v # chain[i].previous_hash
    /\ chain' = [chain EXCEPT ![i].previous_hash = v]
    /\ ret' = "tampered"
    /\ UNCHANGED <<pending_transactions, ledger, last_block_time, now>>
    /\ UNCHANGED simVars
    /\ UNCHANGED unitVars

TamperNext ==
    \/ ret # "tampered" /\ Next
    \/ \E i \in DOMAIN chain, v \in TamperValues(chain) : TamperHash(i, v)
    \/ \E i \in DOMAIN chain, v \in TamperValues(chain) : TamperPreviousHash(i, v)

TamperSpec == Init /\ [][TamperNext]_vars

----------------------------------------------------------------------------
(* Claims about the ledger *)

\* C1: on a fresh ledger and after any sequence of accepted add_transaction
\* and create_block calls, is_valid() is true and every stored block's hash
\* equals a fresh recomputation over the block's current fields.
C1_ValidAfterCalls ==
    /\ is_valid(chain)
    /\ \A i \in DOMAIN chain : chain[i].hash = Block_generate_hash(chain[i])

\* C2: overwriting the stored hash or previous_hash of any stored block with
\* a different value makes is_valid() false.
C2_TamperDetected ==
    ret = "tampered" => ~is_valid(chain)

\* the balances that neither the sender nor the receiver owns are unchanged
OthersUnchanged(from, to) ==
    \A x \in (DOMAIN ledger \cup DOMAIN ledger') \ {from, to} :
        get_balance(ledger', x) = get_balance(ledger, x)

\* what C3 states of a call from a holder with balance >= amount > 0
C3_TransferExact(from, to, amount) ==
    /\ ret' = "Transaction"
    /\ get_balance(ledger', from) = get_balance(ledger, from) - amount
    /\ get_balance(ledger', to) = get_balance(ledger, to) + amount
    /\ OthersUnchanged(from, to)
    /\ total_balance(ledger') = total_balance(ledger)

\* what C3 states of a call from SYSTEM with amount > 0
C3_MintExact(to, amount) ==
    /\ total_balance(ledger') = total_balance(ledger) + amount
    /\ \A x \in DOMAIN ledger : get_balance(ledger', x) >= ledger[x]

\* the inputs C3 speaks of: amount > 0 from SYSTEM or from a holder that owns it
C3_Valid(from, amount) ==
    amount > 0 /\ (from = SYSTEM \/ get_balance(ledger, from) >= amount)

\* C3 as stated: every add_transaction from a holder with balance >= amount > 0
\* succeeds, debits the sender by exactly amount, credits the receiver by
\* exactly amount and leaves the other balances and the sum unchanged; from
\* SYSTEM with amount > 0 the sum grows by exactly amount and nothing is debited.
C3_Original ==
    [][\A from \in Senders, to \in Holders, amount \in Amounts :
          C3_Valid(from, amount) /\ add_transaction(from, to, amount) =>
              IF from = SYSTEM
              THEN C3_MintExact(to, amount)
              ELSE C3_TransferExact(from, to, amount)]_vars

\* C3 amended: as C3, the exact debit and credit being claimed when sender and
\* receiver differ; a holder that sends to itself keeps its balance.
C3_Amended ==
    [][\A from \in Senders, to \in Holders, amount \in Amounts :
          C3_Valid(from, amount) /\ add_transaction(from, to, amount) =>
              IF from = SYSTEM
              THEN C3_MintExact(to, amount)
              ELSE IF from # to
              THEN C3_TransferExact(from, to, amount)
              ELSE /\ ret' = "Transaction"
                   /\ \A x \in DOMAIN ledger \cup DOMAIN ledger' :
                          get_balance(ledger', x) = get_balance(ledger, x)
                   /\ total_balance(ledger') = total_balance(ledger)]_vars

\* a transfer between two holders, a transfer of a holder to itself and a
\* mint have all been accepted
C3_Witness ==
    /\ ret = "Transaction"
    /\ \E i \in DOMAIN pending_transactions :
           /\ pending_transactions[i].from_address = "A"
           /\ pending_transactions[i].to_address = "B"
    /\ \E i \in DOMAIN pending_transactions :
           pending_transactions[i].from_address = SYSTEM
    /\ \E i \in DOMAIN pending_transactions :
           /\ pending_transactions[i].from_address = "A"
           /\ pending_transactions[i].to_address = "A"

\* C4: an add_transaction with amount <= 0, or from a holder whose balance is
\* below amount (a holder absent from the map included), returns None and
\* leaves the balance map, the pending queue and the chain as they were.
C4_RejectionFrame ==
    [][(\E from \in Senders, to \in Holders, amount \in Amounts :
           /\ \/ amount <= 0
              \/ from # SYSTEM /\ get_balance(ledger, from) < amount
           /\ add_transaction(from, to, amount))
       => /\ ret' = "None"
          /\ UNCHANGED <<ledger, pending_transactions, chain>>]_vars

\* a call was rejected while a sender is absent from the balance map and
\* accepted transactions are queued
C4_Witness ==
    /\ ret = "None"
    /\ "A" \notin DOMAIN ledger
    /\ pending_transactions # <<>>

\* C5: no balance is ever negative.
C5_NonNegative ==
    \A a \in DOMAIN ledger : ledger[a] >= 0

\* a holder has spent its whole balance
C5_Witness ==
    /\ "A" \in DOMAIN ledger
    /\ ledger["A"] = 0
    /\ \E i \in DOMAIN pending_transactions :
           /\ pending_transactions[i].from_address = "A"
           /\ pending_transactions[i].to_address = "B"


\* ---------------------------------------------------------------------------
\* The simulation service: routers/crypto.py and routers/simulation.py.
\*
\* The registries are module-level dicts shared by the request handlers and by
\* the run_simulation tasks, all on one asyncio event loop.  A handler or a task
\* runs without interruption from one await to the next, so each action below
\* is one such stretch.  Ids are uuid4 values in the code and are never reused;
\* here the n-th object created has id n.
\*
\* Wall-clock time is carried by timers that count elapsed tick intervals: the
\* time since a simulation's start_time, the time since a chain's last block
\* and whether a sleeping task's interval is over.  A timer stops counting at
\* the largest value any comparison in the code can tell apart.
\*
\* The HTTP responses are not part of the state: a refused request is a step
\* that changes nothing.  The price process and the buy and sell pressures,
\* which no guard of the handlers or of the loop reads, are left out of the
\* iteration; the timestamps of the blocks and transactions made here are the
\* reading of the stamp clock, which these runs do not advance.
\* ---------------------------------------------------------------------------

\* the cryptos a run initializes
CryptoIds == {1}

\* duration_seconds of StartSimulationRequest, an unconstrained int
Durations == {-1, 0, 1}

\* TransactionGenerator: the wallets the generator draws from, and the two
\* fixed addresses
Wallets == {"W1", "W2"}

exchange_address == "EXCHANGE"

treasury_address == "TREASURY"

\* GeneratedTransaction.amount values
GenAmounts == {2}

\* the InitializeRequest of the runs
Request == [total_supply |-> 40, block_reward |-> 50]

\* TransactionGenerator.initialize_wallets: one distribution it can return for
\* initial_supply = total_supply * 0.5: a whale, a regular wallet, 10% for the
\* exchange and 5% for the treasury
initial_distribution ==
    [a \in Wallets \cup {exchange_address, treasury_address} |->
        CASE a = "W1" -> 10
          [] a = "W2" -> 5
          [] a = exchange_address -> 2
          [] a = treasury_address -> 1]

\* TransactionGenerator.get_holder_count over wallet_balances, which holds the
\* initial distribution and is not written by the simulation loop
get_holder_count ==
    Cardinality({a \in DOMAIN initial_distribution : initial_distribution[a] > 0})

\* TransactionGenerator.generate_transaction: the transactions the generator
\* draws in the runs
GeneratedTransactions ==
    { [tx_type |-> "buy", from_address |-> exchange_address, to_address |-> "W1",
       amount |-> a] : a \in GenAmounts }

\* initialize_crypto: the module instances stored under a new crypto id
CryptoData ==
    [ ledger               |-> initial_distribution,
      pending_transactions |-> <<>>,
      chain                |-> <<Genesis(now)>>,
      since_block          |-> 0,
      circulating_supply   |-> SumOver(initial_distribution,
                                       DOMAIN initial_distribution),
      total_supply         |-> Request.total_supply,
      block_reward         |-> Request.block_reward ]

\* SimulationState(crypto_id, duration_seconds) with the model's defaults
SimulationState(crypto_id, duration_seconds) ==
    [ crypto_id              |-> crypto_id,
      status                 |-> "pending",
      started_at             |-> FALSE,
      ended_at               |-> FALSE,
      duration_seconds       |-> duration_seconds,
      elapsed_seconds        |-> 0,
      transactions_generated |-> 0,
      blocks_created         |-> 0,
      holders_count          |-> 0 ]

\* asyncio.create_task(run_simulation(...)): the task has not run yet; age is
\* the time since start_time, slept says that the current sleep is over
NewTask == [pc |-> "created", must_cancel |-> FALSE, slept |-> FALSE, age |-> 0]

\* an event loop that runs handlers inside a task's step (variant)
MidStep_Never == FALSE

\* a task that has set RUNNING and has not reached its first await or its end;
\* nothing else runs on the event loop meanwhile
MidStep == \E s \in DOMAIN tasks : tasks[s].pc = "entered"

\* a scan that never finds a running simulation (variant)
has_running_Never(crypto_id) == FALSE

\* start_simulation's scan for a running simulation of the crypto
has_running(crypto_id) ==
    \E s \in DOMAIN simulations :
        /\ simulations[s].crypto_id = crypto_id
        /\ simulations[s].status = "running"

InitSim ==
    /\ now = 0
    /\ chain = <<Genesis(0)>>
    /\ pending_transactions = <<>>
    /\ last_block_time = 0
    /\ ledger = <<>>
    /\ ret = "initialized"
    /\ InitRegistries
    /\ InitUnits

\* POST /api/crypto/initialize
initialize_crypto ==
    /\ ~MidStep
    /\ Len(crypto_data) + 1 \in CryptoIds
    /\ crypto_data' = Append(crypto_data, CryptoData)
    /\ cryptos' = cryptos \cup {Len(crypto_data) + 1}
    /\ UNCHANGED <<simulations, simulation_tasks, tasks, now, ret>>
    /\ UNCHANGED ledgerVars
    /\ UNCHANGED unitVars

\* DELETE /api/crypto/{crypto_id}
delete_crypto(crypto_id) ==
    /\ ~MidStep
    /\ cryptos' = IF crypto_id \notin cryptos THEN cryptos ELSE cryptos \ {crypto_id}
    /\ UNCHANGED <<crypto_data, simulations, simulation_tasks, tasks, now, ret>>
    /\ UNCHANGED ledgerVars
    /\ UNCHANGED unitVars

\* POST /api/simulation/start/{crypto_id}, refused
StartSimulationRefused(crypto_id) ==
    /\ ~MidStep
    /\ crypto_id \notin cryptos \/ has_running(crypto_id)
    /\ UNCHANGED <<simVars, now, ret>>
    /\ UNCHANGED ledgerVars
    /\ UNCHANGED unitVars

\* POST /api/simulation/start/{crypto_id}, accepted: the state is stored and the
\* task is created and registered
StartSimulationAccepted(crypto_id, duration_seconds) ==
    /\ ~MidStep
    /\ crypto_id \in cryptos
    /\ ~has_running(crypto_id)
    /\ Len(simulations) < MaxSims
    /\ simulations' = Append(simulations,
                             SimulationState(crypto_id, duration_seconds))
    /\ tasks' = Append(tasks, NewTask)
    /\ simulation_tasks' = simulation_tasks \cup {Len(simulations) + 1}
    /\ UNCHANGED <<cryptos, crypto_data, now, ret>>
    /\ UNCHANGED ledgerVars
    /\ UNCHANGED unitVars

\* the HTTP status of start_simulation's answer
start_simulation_status(crypto_id) ==
    IF crypto_id \notin cryptos THEN 404
    ELSE IF has_running(crypto_id) THEN 400
    ELSE 200

start_simulation(crypto_id, duration_seconds) ==
    \/ StartSimulationRefused(crypto_id)
    \/ StartSimulationAccepted(crypto_id, duration_seconds)

\* a cancel() that leaves the task as it is (variant)
cancel_KeepRunning(t) == t

\* Task.cancel(): CancelledError is raised in the task at its next resumption,
\* unless the task is already done
cancel(t) == [t EXCEPT !.must_cancel = (t.pc # "done")]

\* a stop_simulation that also accepts a simulation still pending (variant)
not_running_PendingAllowed(sim) == sim.status \notin {"running", "pending"}

\* a stop_simulation that never answers "not running" (variant)
not_running_Never(sim) == FALSE

\* stop_simulation's test: sim.status != SimulationStatus.RUNNING
not_running(sim) == sim.status # "running"

\* POST /api/simulation/stop/{simulation_id}, refused
StopSimulationRefused(simulation_id) ==
    /\ ~MidStep
    /\ \/ simulation_id \notin DOMAIN simulations
       \/ /\ simulation_id \in DOMAIN simulations
          /\ not_running(simulations[simulation_id])
    /\ UNCHANGED <<simVars, now, ret>>
    /\ UNCHANGED ledgerVars
    /\ UNCHANGED unitVars

\* POST /api/simulation/stop/{simulation_id}, accepted: the task is cancelled
\* and unregistered, the state becomes PAUSED with ended_at
StopSimulationAccepted(simulation_id) ==
    /\ ~MidStep
    /\ simulation_id \in DOMAIN simulations
    /\ ~not_running(simulations[simulation_id])
    /\ tasks' = IF simulation_id \in simulation_tasks
                THEN [tasks EXCEPT ![simulation_id] = cancel(@)]
                ELSE tasks
    /\ simulation_tasks' = simulation_tasks \ {simulation_id}
    /\ simulations' = [simulations EXCEPT ![simulation_id].status = "paused",
                                          ![simulation_id].ended_at = TRUE]
    /\ UNCHANGED <<cryptos, crypto_data, now, ret>>
    /\ UNCHANGED ledgerVars
    /\ UNCHANGED unitVars

\* the HTTP status of stop_simulation's answer
stop_simulation_status(simulation_id) ==
    IF simulation_id \notin DOMAIN simulations THEN 404
    ELSE IF not_running(simulations[simulation_id]) THEN 400
    ELSE 200

stop_simulation(simulation_id) ==
    \/ StopSimulationRefused(simulation_id)
    \/ StopSimulationAccepted(simulation_id)

\* a reader that takes the pending transactions out of the queue (variant)
get_pending_transactions_Drained(d) == <<>>

\* BlockchainSimulator.get_pending_transactions: the queue itself, as it is
get_pending_transactions(d) == d.pending_transactions

\* BlockchainSimulator.get_chain: the chain itself, as it is
get_chain(d) == d.chain

\* the snapshots of a crypto: get_current_state of the broadcast loops,
\* get_crypto_state and get_crypto_stats with the get_stats of the four
\* modules; they take the chain and the queue from the accessors and compute
\* their figures from them
GetCurrentState(crypto_id) ==
    /\ ~MidStep
    /\ IF crypto_id \in cryptos
       THEN crypto_data' =
                [crypto_data EXCEPT
                    ![crypto_id].chain = get_chain(crypto_data[crypto_id]),
                    ![crypto_id].pending_transactions =
                        get_pending_transactions(crypto_data[crypto_id])]
       ELSE UNCHANGED crypto_data
    /\ UNCHANGED <<cryptos, simulations, simulation_tasks, tasks, now, ret>>
    /\ UNCHANGED ledgerVars
    /\ UNCHANGED unitVars

\* GET /api/simulation/{simulation_id}: not-found or the fields of the state
GetSimulationState(simulation_id) ==
    /\ ~MidStep
    /\ UNCHANGED <<simVars, now, ret>>
    /\ UNCHANGED ledgerVars
    /\ UNCHANGED unitVars

\* BlockchainSimulator.add_transaction on the instances of one crypto
SimAddTransaction(d, from, to, amount) ==
    IF rejected(d.ledger, from, amount)
    THEN d
    ELSE [d EXCEPT
            !.ledger = update_ledger(d.ledger, from, to, amount),
            !.pending_transactions =
                Blockchain_add_transaction(@, Transaction(from, to, amount, now))]

\* BlockchainSimulator.create_block on the instances of one crypto
SimCreateBlock(d) ==
    [d EXCEPT
        !.chain = Append(@, stamp_block_index(
                       Blockchain_create_block(d.chain, d.pending_transactions, now))),
        !.pending_transactions = <<>>,
        !.since_block = 0]

\* an apply_block_reward that does not cut the reward to the headroom (variant)
apply_block_reward_Uncapped(d) == d.block_reward

\* TokenomicsEngine.apply_block_reward: the reward it returns
apply_block_reward(d) ==
    IF d.circulating_supply + d.block_reward > d.total_supply
    THEN d.total_supply - d.circulating_supply
    ELSE d.block_reward

\* TokenomicsEngine.update_supply(amount, is_mint=True)
update_supply(d, amount) ==
    IF d.circulating_supply + amount < d.total_supply
    THEN d.circulating_supply + amount
    ELSE d.total_supply

\* a reward paid to MINER without being minted (variant)
SimBlockReward_NotMinted(d) ==
    LET reward == apply_block_reward(d)
    IN  IF reward > 0
        THEN SimAddTransaction(d, SYSTEM, "MINER", reward)
        ELSE d

\* lines 125-128 of run_simulation: mint the reward and pay it to MINER
SimBlockReward(d) ==
    LET reward == apply_block_reward(d)
    IN  IF reward > 0
        THEN SimAddTransaction(
                 [d EXCEPT !.circulating_supply = update_supply(d, reward)],
                 SYSTEM, "MINER", reward)
        ELSE d

\* one iteration of the loop of run_simulation on the instances of the crypto:
\* the generated transaction is offered to the ledger, then a block is sealed
\* and rewarded if one is due
TickData(d, gen_tx) ==
    LET d1 == SimAddTransaction(d, gen_tx.from_address, gen_tx.to_address,
                                gen_tx.amount)
    IN  IF should_create_block(d1.since_block, d1.pending_transactions)
        THEN SimBlockReward(SimCreateBlock(d1))
        ELSE d1

\* one iteration of the loop of run_simulation on the SimulationState
TickState(sim, d, gen_tx, elapsed) ==
    LET accepted == ~rejected(d.ledger, gen_tx.from_address, gen_tx.amount)
        d1 == SimAddTransaction(d, gen_tx.from_address, gen_tx.to_address,
                                gen_tx.amount)
        sealed == should_create_block(d1.since_block, d1.pending_transactions)
    IN  [sim EXCEPT
            !.elapsed_seconds = elapsed,
            !.transactions_generated = IF accepted THEN @ + 1 ELSE @,
            !.blocks_created = IF sealed THEN @ + 1 ELSE @,
            !.holders_count = get_holder_count]

\* the while condition of run_simulation
loop_continues(sim) == sim.elapsed_seconds < sim.duration_seconds

\* a loop exit that leaves the status as RUNNING (variant)
exit_status_Running == "running"

\* the status run_simulation sets after the loop
exit_status == "completed"

\* the longest duration a request asks for; no comparison tells larger ages apart
LongestDuration == CHOOSE d \in Durations : \A e \in Durations : e <= d

\* the task is at the loop head: it has just set RUNNING, or its sleep is over
\* and no cancellation is pending
AtLoopHead(s) ==
    \/ tasks[s].pc = "entered"
    \/ /\ ~MidStep
       /\ tasks[s].pc = "sleeping"
       /\ tasks[s].slept
       /\ ~tasks[s].must_cancel

\* run_simulation up to the loop: return if the crypto is gone, else set RUNNING
\* and the start timestamps
TaskStart(s) ==
    /\ ~MidStep
    /\ s \in DOMAIN tasks
    /\ tasks[s].pc = "created"
    /\ IF simulations[s].crypto_id \notin cryptos
       THEN /\ tasks' = [tasks EXCEPT ![s].pc = "done"]
            /\ UNCHANGED simulations
       ELSE /\ tasks' = [tasks EXCEPT ![s].pc = "entered", ![s].age = 0]
            /\ simulations' = [simulations EXCEPT ![s].status = "running",
                                                  ![s].started_at = TRUE]
    /\ UNCHANGED <<cryptos, crypto_data, simulation_tasks, now, ret>>
    /\ UNCHANGED ledgerVars
    /\ UNCHANGED unitVars

\* one iteration of the loop, up to the await of asyncio.sleep
TaskTick(s, gen_tx) ==
    /\ s \in DOMAIN tasks
    /\ AtLoopHead(s)
    /\ loop_continues(simulations[s])
    /\ simulations[s].status = "running"
    /\ LET c == simulations[s].crypto_id
       IN  /\ crypto_data' = [crypto_data EXCEPT
                                 ![c] = TickData(crypto_data[c], gen_tx)]
           /\ simulations' = [simulations EXCEPT
                                 ![s] = TickState(@, crypto_data[c], gen_tx,
                                                  tasks[s].age)]
    /\ tasks' = [tasks EXCEPT ![s].pc = "sleeping", ![s].slept = FALSE]
    /\ UNCHANGED <<cryptos, simulation_tasks, now, ret>>
    /\ UNCHANGED ledgerVars
    /\ UNCHANGED unitVars

\* a handler of Exception that lets the task go on to its next sleep (variant)
after_fault_Retry == "sleeping"

\* after the handler of Exception the coroutine returns: the task is done
after_fault == "done"

\* an iteration that raises after elapsed_seconds is written: except Exception
TaskFault(s) ==
    /\ s \in DOMAIN tasks
    /\ AtLoopHead(s)
    /\ loop_continues(simulations[s])
    /\ simulations[s].status = "running"
    /\ simulations' = [simulations EXCEPT ![s].elapsed_seconds = tasks[s].age,
                                          ![s].status = "failed"]
    /\ tasks' = [tasks EXCEPT ![s].pc = after_fault]
    /\ UNCHANGED <<cryptos, crypto_data, simulation_tasks, now, ret>>
    /\ UNCHANGED ledgerVars
    /\ UNCHANGED unitVars

\* the loop ends, by its condition or by the break: COMPLETED with ended_at
TaskExit(s) ==
    /\ s \in DOMAIN tasks
    /\ AtLoopHead(s)
    /\ ~loop_continues(simulations[s]) \/ simulations[s].status # "running"
    /\ simulations' = [simulations EXCEPT ![s].status = exit_status,
                                          ![s].ended_at = TRUE]
    /\ tasks' = [tasks EXCEPT ![s].pc = "done"]
    /\ UNCHANGED <<cryptos, crypto_data, simulation_tasks, now, ret>>
    /\ UNCHANGED ledgerVars
    /\ UNCHANGED unitVars

\* the cancelled task resumes inside asyncio.sleep: except CancelledError
TaskCancelled(s) ==
    /\ ~MidStep
    /\ s \in DOMAIN tasks
    /\ tasks[s].pc = "sleeping"
    /\ tasks[s].must_cancel
    /\ simulations' = [simulations EXCEPT ![s].status = "paused"]
    /\ tasks' = [tasks EXCEPT ![s].pc = "done"]
    /\ UNCHANGED <<cryptos, crypto_data, simulation_tasks, now, ret>>
    /\ UNCHANGED ledgerVars
    /\ UNCHANGED unitVars

\* the steps of the task of simulation s that the event loop owes it
run_simulation(s) ==
    \/ TaskStart(s)
    \/ \E gen_tx \in GeneratedTransactions : TaskTick(s, gen_tx)
    \/ TaskExit(s)
    \/ TaskCancelled(s)

\* one tick interval of wall-clock time passes
TimePasses ==
    /\ ~MidStep
    /\ tasks' = [s \in DOMAIN tasks |->
                    IF tasks[s].pc = "sleeping"
                    THEN [tasks[s] EXCEPT
                             !.slept = TRUE,
                             !.age = IF @ < LongestDuration THEN @ + 1 ELSE @]
                    ELSE tasks[s]]
    /\ crypto_data' = [c \in DOMAIN crypto_data |->
                          [crypto_data[c] EXCEPT
                              !.since_block = IF @ < block_time THEN @ + 1 ELSE @]]
    /\ UNCHANGED <<cryptos, simulations, simulation_tasks, now, ret>>
    /\ UNCHANGED ledgerVars
    /\ UNCHANGED unitVars

SimNext ==
    \/ initialize_crypto
    \/ \E c \in CryptoIds : delete_crypto(c)
    \/ \E c \in CryptoIds : StartSimulationRefused(c)
    \/ \E c \in CryptoIds, d \in Durations : StartSimulationAccepted(c, d)
    \/ \E s \in 1 .. MaxSims : StopSimulationRefused(s)
    \/ \E s \in 1 .. MaxSims : StopSimulationAccepted(s)
    \/ \E c \in CryptoIds : GetCurrentState(c)
    \/ \E s \in 1 .. MaxSims : GetSimulationState(s)
    \/ \E s \in 1 .. MaxSims : TaskStart(s)
    \/ \E s \in 1 .. MaxSims, gen_tx \in GeneratedTransactions : TaskTick(s, gen_tx)
    \/ \E s \in 1 .. MaxSims : TaskFault(s)
    \/ \E s \in 1 .. MaxSims : TaskExit(s)
    \/ \E s \in 1 .. MaxSims : TaskCancelled(s)
    \/ TimePasses

SimSpec == InitSim /\ [][SimNext]_vars

\* the event loop runs every ready task and wall-clock time does not stop
FairSimSpec ==
    /\ SimSpec
    /\ WF_vars(TimePasses)
    /\ \A s \in 1 .. MaxSims : WF_vars(run_simulation(s))


\* ---------------------------------------------------------------------------
\* Properties of the simulation service
\* ---------------------------------------------------------------------------

Running(s) == s \in DOMAIN simulations /\ simulations[s].status = "running"

Terminal(status) == status \in {"completed", "paused", "failed"}

\* C6: at any moment at most one simulation of a crypto_id is Running, whatever
\* the interleaving of start requests, stop requests and task steps.
C6_OneRunningPerCrypto ==
    \A s1 \in DOMAIN simulations : \A s2 \in DOMAIN simulations :
        /\ simulations[s1].crypto_id = simulations[s2].crypto_id
        /\ simulations[s1].status = "running"
        /\ simulations[s2].status = "running"
        => s1 = s2

\* C7: a simulation is created Pending, and its status only ever moves
\* Pending -> Running -> Completed, Paused or Failed: nothing returns to Pending,
\* nothing leaves Pending except to Running, and a terminal status never changes.
C7_Lifecycle ==
    [][ /\ \A s \in DOMAIN simulations' \ DOMAIN simulations :
              simulations'[s].status = "pending"
        /\ \A s \in DOMAIN simulations :
              /\ s \in DOMAIN simulations'
              /\ LET old == simulations[s].status
                     new == simulations'[s].status
                 IN  \/ new = old
                     \/ old = "pending" /\ new = "running"
                     \/ old = "running" /\ Terminal(new) ]_vars

\* a run that has shown each of the three ways out of Running, or the direct
\* way Pending -> Running -> Completed of a zero duration
C7_Witness ==
    /\ Len(simulations) = 2
    /\ simulations[1].status = "paused"
    /\ simulations[2].status = "completed"
    /\ simulations[2].duration_seconds = 0
    /\ tasks[1].pc = "done"

\* C8: an accepted stop of a Running simulation makes it Paused, and it is
\* Paused in every later state: the cancelled task never sets Completed or
\* Failed afterwards.
C8_StopIsFinal ==
    [][ \A s \in DOMAIN simulations :
            /\ StopSimulationAccepted(s) => simulations'[s].status = "paused"
            /\ simulations[s].status = "paused"
                   => s \in DOMAIN simulations' /\ simulations'[s].status = "paused" ]_vars

\* a stopped simulation whose cancelled task has run to its end
C8_Witness ==
    \E s \in DOMAIN simulations :
        /\ simulations[s].status = "paused"
        /\ simulations[s].ended_at
        /\ s \notin simulation_tasks
        /\ tasks[s].must_cancel
        /\ tasks[s].pc = "done"

\* C9: a Running simulation that is never stopped and hits no fault is
\* eventually Completed, for every duration (zero included), when time advances
\* and its task is scheduled fairly.  A stop leaves Paused and a fault leaves
\* Failed, so the other two outcomes are exactly the excluded runs.
C9_EventuallyCompleted ==
    \A s \in 1 .. MaxSims :
        Running(s) ~> (s \in DOMAIN simulations /\ Terminal(simulations[s].status))

\* a simulation of positive duration that ran its loop and completed
C9_Witness ==
    \E s \in DOMAIN simulations :
        /\ simulations[s].status = "completed"
        /\ simulations[s].duration_seconds > 0
        /\ simulations[s].elapsed_seconds >= simulations[s].duration_seconds
        /\ simulations[s].transactions_generated > 0

\* C10: every accepted simulation leaves Pending and becomes Running with its
\* start timestamp recorded, whatever requests come before its task's first
\* step: once the task has taken that step the simulation is no longer Pending.
C10_StartedByFirstStep ==
    \A s \in DOMAIN simulations :
        tasks[s].pc # "created"
            => simulations[s].status # "pending" /\ simulations[s].started_at


\* C11: a fault raised inside an iteration is caught in run_simulation: the
\* simulation becomes Failed, and from then on its state is never written
\* again and no iteration of its task runs (nothing is retried).
C11_FaultIsFinal ==
    [][ \A s \in DOMAIN simulations :
            /\ TaskFault(s) => simulations'[s].status = "failed"
            /\ simulations[s].status = "failed"
                  => /\ s \in DOMAIN simulations'
                     /\ simulations'[s] = simulations[s]
                     /\ ~(\E gen_tx \in GeneratedTransactions : TaskTick(s, gen_tx)) ]_vars

\* a simulation that failed in its second iteration, after one accepted
\* transaction, and whose task is over
C11_Witness ==
    \E s \in DOMAIN simulations :
        /\ simulations[s].status = "failed"
        /\ simulations[s].transactions_generated = 1
        /\ simulations[s].elapsed_seconds = 1
        /\ tasks[s].pc = "done"


\* ---------------------------------------------------------------------------
\* Further properties of the ledger
\* ---------------------------------------------------------------------------

\* C12: create_block without an explicit list appends one block that holds
\* exactly the pending transactions, in their order (each now stamped with the
\* block's index), so its transaction count is the queue length before the
\* call, and the queue is empty afterwards; called again at once it seals a
\* block of zero transactions and the queue stays empty.
C12_SealsPending ==
    [][ CreateBlock =>
          LET b == chain'[Len(chain')]
          IN  /\ Len(chain') = Len(chain) + 1
              /\ Len(b.transactions) = Len(pending_transactions)
              /\ \A i \in 1 .. Len(pending_transactions) :
                     [b.transactions[i] EXCEPT !.block_index = NoBlockIndex]
                         = pending_transactions[i]
              /\ pending_transactions' = <<>> ]_vars

\* a block with a transaction, sealed, and directly after it an empty block
C12_Witness ==
    /\ ret = "Block"
    /\ Len(chain) = 3
    /\ Len(chain[2].transactions) = 1
    /\ Len(chain[3].transactions) = 0
    /\ chain[3].timestamp = chain[2].timestamp
    /\ pending_transactions = <<>>


\* every block sits at its own index and names the stored hash of the block
\* before it
ChainLinked(c) ==
    /\ \A i \in 1 .. Len(c) : c[i].index = i - 1
    /\ \A i \in 2 .. Len(c) : c[i].previous_hash = c[i - 1].hash

\* C13: after any add_transaction and create_block calls block[i].index = i for
\* every position, block[i].previous_hash is the stored hash of block[i-1] for
\* every i > 0, and the chain only grows at its tail: no block is removed,
\* reordered or replaced.
C13_LinkedAppendOnly ==
    /\ ChainLinked(chain)
    /\ [][ /\ ChainLinked(chain')
           /\ Len(chain') >= Len(chain)
           /\ SubSeq(chain', 1, Len(chain)) = chain ]_vars

\* a chain of three blocks whose tail holds a transaction and follows a block
\* that is not the genesis block
C13_Witness ==
    /\ Len(chain) = 3
    /\ Len(chain[3].transactions) = 1
    /\ chain[3].previous_hash = chain[2].hash
    /\ chain[2].hash # chain[1].hash


\* C14: the chain is never empty; block 0 is the genesis block made at
\* construction (index 0, previous_hash of 64 zeros, no transactions, the
\* construction time) and stays that block, and no later block is a genesis
\* block.
C14_OneGenesis ==
    /\ Len(chain) >= 1
    /\ chain[1].index = 0
    /\ chain[1].previous_hash = ZeroHash
    /\ chain[1].transactions = <<>>
    /\ chain[1].timestamp = 0
    /\ chain[1].hash = Block_generate_hash(chain[1])
    /\ \A i \in 2 .. Len(chain) :
          chain[i].index # 0 /\ chain[i].previous_hash # ZeroHash

\* the genesis block under a later block of two transactions, with the clock
\* past the construction time
C14_Witness ==
    /\ Len(chain) = 2
    /\ Len(chain[2].transactions) = 2
    /\ chain[2].timestamp > 0


\* ---------------------------------------------------------------------------
\* The TokenomicsEngine on its own: supply.  Supplies, amounts and rewards are
\* whole tokens; neither the configuration nor the arguments are validated by
\* the code, so negative values are among the inputs.
\* ---------------------------------------------------------------------------

TotalSupplies == {0, 3}

BlockRewards == {-1, 0, 1, 2}

SupplyAmounts == {-2, -1, 0, 1, 2}

\* TokenomicsEngine.update_supply(amount, is_mint=False)
burn_supply(d, amount) ==
    IF d.circulating_supply - amount > 0
    THEN d.circulating_supply - amount
    ELSE 0

\* an engine whose circulating supply is within 0 .. total_supply
InitToken ==
    /\ now = 0
    /\ chain = <<Genesis(0)>>
    /\ pending_transactions = <<>>
    /\ last_block_time = 0
    /\ ledger = <<>>
    /\ ret = 0
    /\ InitRegistries
    /\ price_sim = PriceSimulator(Price(100), 5)
    /\ calls = 0
    /\ \E total \in TotalSupplies, reward \in BlockRewards :
          \E circulating \in 0 .. total :
              tokenomics = TokenomicsEngine(total, reward, circulating, Price(100))

\* TokenomicsEngine.update_supply(amount, is_mint): returns the new supply
UpdateSupply(amount, is_mint) ==
    /\ calls < MaxCalls
    /\ calls' = calls + 1
    /\ tokenomics' = [tokenomics EXCEPT !.circulating_supply =
                         IF is_mint
                         THEN update_supply(tokenomics, amount)
                         ELSE burn_supply(tokenomics, amount)]
    /\ ret' = tokenomics'.circulating_supply
    /\ UNCHANGED <<price_sim, now>>
    /\ UNCHANGED ledgerVars
    /\ UNCHANGED simVars

\* TokenomicsEngine.apply_block_reward(miner_address): returns the reward
ApplyBlockReward ==
    /\ calls < MaxCalls
    /\ calls' = calls + 1
    /\ ret' = apply_block_reward(tokenomics)
    /\ tokenomics' = IF apply_block_reward(tokenomics) > 0
                     THEN [tokenomics EXCEPT !.circulating_supply =
                              update_supply(tokenomics,
                                            apply_block_reward(tokenomics))]
                     ELSE tokenomics
    /\ UNCHANGED <<price_sim, now>>
    /\ UNCHANGED ledgerVars
    /\ UNCHANGED simVars

TokenNext ==
    \/ \E amount \in SupplyAmounts, is_mint \in BOOLEAN : UpdateSupply(amount, is_mint)
    \/ ApplyBlockReward

TokenSpec == InitToken /\ [][TokenNext]_vars

SupplyInRange(d) ==
    0 <= d.circulating_supply /\ d.circulating_supply <= d.total_supply

\* what apply_block_reward is said to return
ExpectedReward(d) ==
    IF d.block_reward < d.total_supply - d.circulating_supply
    THEN d.block_reward
    ELSE d.total_supply - d.circulating_supply

\* C15 as stated: from a supply within range apply_block_reward returns
\* min(block_reward, total_supply - circulating_supply), raises the circulating
\* supply by exactly what it returns and never above total_supply, and at the
\* cap it returns 0 and changes nothing.
C15_Original ==
    [][ SupplyInRange(tokenomics) /\ ApplyBlockReward =>
          /\ ret' = ExpectedReward(tokenomics)
          /\ tokenomics'.circulating_supply = tokenomics.circulating_supply + ret'
          /\ tokenomics'.circulating_supply <= tokenomics.total_supply
          /\ tokenomics.circulating_supply = tokenomics.total_supply
                 => ret' = 0 /\ tokenomics' = tokenomics ]_vars

\* C15 amended: the returned amount is minted only when it is positive, and at
\* the cap the return is 0 for a block reward that is not negative.
C15_Amended ==
    [][ SupplyInRange(tokenomics) /\ ApplyBlockReward =>
          /\ ret' = ExpectedReward(tokenomics)
          /\ tokenomics'.circulating_supply =
                 IF ret' > 0 THEN tokenomics.circulating_supply + ret'
                             ELSE tokenomics.circulating_supply
          /\ tokenomics'.circulating_supply <= tokenomics.total_supply
          /\ tokenomics.circulating_supply = tokenomics.total_supply
                 => /\ tokenomics' = tokenomics
                    /\ tokenomics.block_reward >= 0 => ret' = 0 ]_vars

\* the reward of 2 was cut to the headroom of 1 and the next call returned 0:
\* two calls that took the supply from 2 to the cap of 3
C15_Witness ==
    /\ calls = 2
    /\ ret = 0
    /\ tokenomics.block_reward = 2
    /\ tokenomics.circulating_supply = 3
    /\ tokenomics.total_supply = 3

\* C16: from 0 <= circulating_supply <= total_supply, whatever update_supply
\* and apply_block_reward calls are made, with any amount and either
\* direction, 0 <= circulating_supply <= total_supply still holds.
C16_SupplyInRange == SupplyInRange(tokenomics)


\* ---------------------------------------------------------------------------
\* Float values.  A float is kept as a fraction <<n, d>> with d >= 0: d > 0 is
\* the finite value n / d, <<1, 0>> and <<-1, 0>> are the two infinities and
\* <<0, 0>> is NaN.  The operators follow IEEE 754 on these values, without
\* rounding.
\* ---------------------------------------------------------------------------

Inf == <<1, 0>>

NaN == <<0, 0>>

IsNaN(x) == x[1] = 0 /\ x[2] = 0

Sign(n) == IF n > 0 THEN 1 ELSE IF n < 0 THEN -1 ELSE 0

RECURSIVE GCD(_, _)
GCD(a, b) == IF b = 0 THEN a ELSE GCD(b, a % b)

\* an infinity keeps only its sign, a finite value is in lowest terms
Norm(x) ==
    IF x[2] = 0
    THEN <<Sign(x[1]), 0>>
    ELSE LET g == GCD(Sign(x[1]) * x[1], x[2])
         IN  <<x[1] \div g, x[2] \div g>>

\* a * b, cancelling common factors before the products are taken
FMul(a, b) ==
    IF a[2] = 0 \/ b[2] = 0
    THEN <<Sign(a[1]) * Sign(b[1]), 0>>
    ELSE LET g == GCD(Sign(a[1]) * a[1], b[2])
             h == GCD(Sign(b[1]) * b[1], a[2])
         IN  Norm(<<(a[1] \div g) * (b[1] \div h),
                    (a[2] \div h) * (b[2] \div g)>>)

\* a + b; two infinities add to NaN only when their signs differ
FAdd(a, b) ==
    IF a[2] = 0 /\ b[2] = 0
    THEN (IF a[1] = b[1] THEN a ELSE NaN)
    ELSE LET g == GCD(a[2], b[2])
         IN  Norm(<<a[1] * (b[2] \div g) + b[1] * (a[2] \div g),
                    (a[2] \div g) * b[2]>>)

\* a - b
FSub(a, b) == FAdd(a, <<-b[1], b[2]>>)

\* a / n for an int n other than 0
FDivInt(a, n) == Norm(<<a[1] * Sign(n), a[2] * Sign(n) * n>>)

\* a / b for a finite b > 0
FDiv(a, b) == FMul(a, <<b[2], b[1]>>)

\* a < b: false whenever one of the two is NaN
FLt(a, b) ==
    /\ ~IsNaN(a)
    /\ ~IsNaN(b)
    /\ IF a[2] = 0 /\ b[2] = 0
       THEN a[1] < b[1]
       ELSE LET g == GCD(a[2], b[2])
            IN  a[1] * (b[2] \div g) < b[1] * (a[2] \div g)

\* the builtin max(a, b): b replaces a only if b > a
py_max(a, b) == IF FLt(a, b) THEN b ELSE a

\* the builtin min(a, b): b replaces a only if b < a
py_min(a, b) == IF FLt(b, a) THEN b ELSE a

\* ---------------------------------------------------------------------------
\* The TokenomicsEngine on its own: price
\* ---------------------------------------------------------------------------

\* TokenomicsConfig defaults, prices in units of 0.0001
min_price == Price(1)

max_price == Price(10000000)

stability_factor == <<1, 10>>

\* the values tried: pressures in tokens, and prior prices that an unvalidated
\* initial_price can set, below min_price and negative ones included
Pressures == {<<0, 1>>, <<10, 1>>, <<200, 1>>, Inf}

Supplies == {-1, 0, 1}

PriorPrices == {Price(-100), Price(0), Price(1), Price(100), max_price}

\* the bounds applied with each builtin's arguments the other way round (variant)
clamp_price_ArgsSwapped(new_price) ==
    py_max(py_min(new_price, max_price), min_price)

\* max(min_price, min(max_price, new_price))
clamp_price(new_price) ==
    py_max(min_price, py_min(max_price, new_price))

\* TokenomicsEngine.calculate_price: the price it stores and returns
calculate_price(d) ==
    LET net_pressure == FSub(d.buy_pressure, d.sell_pressure)
        pressure_ratio == IF d.circulating_supply > 0
                          THEN FDivInt(net_pressure, d.circulating_supply)
                          ELSE <<0, 1>>
        price_change == FMul(pressure_ratio, stability_factor)
    IN  clamp_price(FMul(d.current_price, FAdd(<<1, 1>>, price_change)))

\* a calculate_price that skips the decay when nothing circulates (variant)
after_calculate_price_DecayIfSupply(d, timestamp) ==
    [d EXCEPT
        !.current_price = calculate_price(d),
        !.price_history = Append(@, <<timestamp, calculate_price(d)>>),
        !.buy_pressure = IF d.circulating_supply > 0
                         THEN FMul(@, <<9, 10>>) ELSE @,
        !.sell_pressure = IF d.circulating_supply > 0
                          THEN FMul(@, <<9, 10>>) ELSE @]

\* TokenomicsEngine.calculate_price: the engine it leaves
after_calculate_price(d, timestamp) ==
    [d EXCEPT
        !.current_price = calculate_price(d),
        !.price_history = Append(@, <<timestamp, calculate_price(d)>>),
        !.buy_pressure = FMul(@, <<9, 10>>),
        !.sell_pressure = FMul(@, <<9, 10>>)]

InitPricing ==
    /\ now = 0
    /\ chain = <<Genesis(0)>>
    /\ pending_transactions = <<>>
    /\ last_block_time = 0
    /\ ledger = <<>>
    /\ ret = NaN
    /\ InitRegistries
    /\ price_sim = PriceSimulator(Price(100), 5)
    /\ calls = 0
    /\ \E buy \in Pressures, sell \in Pressures, supply \in Supplies,
          price \in PriorPrices :
          tokenomics = [TokenomicsEngine(3, 0, supply, price) EXCEPT
                           !.buy_pressure = buy, !.sell_pressure = sell]

\* TokenomicsEngine.calculate_price(timestamp)
CalculatePrice ==
    /\ calls < 1
    /\ calls' = calls + 1
    /\ tokenomics' = after_calculate_price(tokenomics, now)
    /\ ret' = calculate_price(tokenomics)
    /\ UNCHANGED <<price_sim, now>>
    /\ UNCHANGED ledgerVars
    /\ UNCHANGED simVars

PricingSpec == InitPricing /\ [][CalculatePrice]_vars

\* min_price <= x <= max_price
WithinPriceBounds(x) ==
    /\ ~IsNaN(x)
    /\ ~FLt(x, min_price)
    /\ ~FLt(max_price, x)

\* C17: whatever the buy pressure, the sell pressure, the circulating supply
\* and the prior price, extreme values included, the price that
\* calculate_price returns and stores lies within [min_price, max_price].
C17_PriceWithinBounds ==
    calls > 0 =>
        /\ WithinPriceBounds(ret)
        /\ tokenomics.current_price = ret
        /\ tokenomics.price_history[Len(tokenomics.price_history)][2] = ret

\* a price computed from a net pressure of infinity minus infinity
C17_Witness ==
    /\ calls > 0
    /\ tokenomics.buy_pressure = Inf
    /\ tokenomics.sell_pressure = Inf
    /\ tokenomics.circulating_supply = 1
    /\ Len(tokenomics.price_history) = 1


\* ---------------------------------------------------------------------------
\* The PriceSimulator on its own
\* ---------------------------------------------------------------------------

\* the floor of update_price, in units of 0.0001
floor_price == Price(1)

\* the volatility settings of the three intensities, in percent
Volatilities == {2, 5, 10}

\* positive initial prices; the first one is half the floor
InitialPrices == {<<1, 2>>, Price(1), Price(100), Price(10000)}

\* draws of random.gauss(0, volatility)
Brownian == {<<-1, 1>>, <<-5, 100>>, <<-1, 100>>, <<0, 1>>, <<3, 100>>,
             <<5, 100>>, <<1, 2>>}

\* the levels given to add_support_level and add_resistance_level
LevelLists == {<<>>, <<Price(100)>>, <<Price(100), Price(104)>>,
               <<Price(96), Price(100)>>}

\* the volumes and the supply given to add_market_impact
Volumes == {<<0, 1>>, <<20, 1>>, <<50, 1>>}

ImpactSupplies == {0, 100}

\* the trend of a new simulator, and the one that
\* add_market_impact(50, 0, 100) leaves in it
Trends == {<<0, 1>>, <<1, 400>>}

trend_strength == <<3, 10>>

trend_decay == <<95, 100>>

reversion_strength == <<1, 10>>

\* PriceSimulator._mean_reversion
mean_reversion(p) ==
    IF p.mean_price[1] = 0 /\ p.mean_price[2] # 0
    THEN <<0, 1>>
    ELSE FMul(FDiv(FSub(p.mean_price, p.current_price), p.mean_price),
              reversion_strength)

\* PriceSimulator._trend_component
trend_component(p) == FMul(p.trend, trend_strength)

\* 0.95 * support <= current_price <= support
near_support(p, support) ==
    /\ ~FLt(p.current_price, FMul(<<95, 100>>, support))
    /\ ~FLt(support, p.current_price)

\* resistance <= current_price <= 1.05 * resistance
near_resistance(p, resistance) ==
    /\ ~FLt(p.current_price, resistance)
    /\ ~FLt(FMul(<<105, 100>>, resistance), p.current_price)

\* PriceSimulator._support_resistance_effect: +0.02 for each support level
\* and -0.02 for each resistance level found near the price
support_resistance_effect(p) ==
    LET supports == {i \in DOMAIN p.support_levels :
                        near_support(p, p.support_levels[i])}
        resistances == {i \in DOMAIN p.resistance_levels :
                           near_resistance(p, p.resistance_levels[i])}
    IN  Norm(<<2 * (Cardinality(supports) - Cardinality(resistances)), 100>>)

\* brownian + reversion + trend + sr_effect
total_change(p, brownian) ==
    FAdd(FAdd(FAdd(brownian, mean_reversion(p)), trend_component(p)),
         support_resistance_effect(p))

\* PriceSimulator.update_price, given the sum of the four components
update_price(p, change, timestamp) ==
    LET volatility == <<p.volatility, 100>>
        change_factor == py_max(<<-p.volatility, 100>>,
                                py_min(volatility, change))
        raised == FMul(p.current_price, FAdd(<<1, 1>>, change_factor))
        new_price == py_max(floor_price, raised)
        price_change == IF FLt(<<0, 1>>, p.current_price)
                        THEN FDiv(FSub(new_price, p.current_price),
                                  p.current_price)
                        ELSE <<0, 1>>
    IN  [p EXCEPT !.price_changes = Append(@, price_change),
                  !.current_price = new_price,
                  !.price_history = Append(@, <<timestamp, new_price>>),
                  !.all_time_high = py_max(@, new_price),
                  !.all_time_low = py_min(@, new_price),
                  !.mean_price = FAdd(FMul(@, <<99, 100>>),
                                      FMul(new_price, <<1, 100>>)),
                  !.trend = FMul(@, trend_decay)]

\* the value PriceSimulator.add_market_impact returns
market_impact(buy_volume, sell_volume, total_supply) ==
    IF total_supply = 0
    THEN <<0, 1>>
    ELSE FMul(FDivInt(FSub(buy_volume, sell_volume), total_supply), <<1, 10>>)

\* an add_market_impact that blends a zero impact when the supply is zero
\* (variant)
add_market_impact_BlendsZero(p, buy_volume, sell_volume, total_supply) ==
    [p EXCEPT !.trend =
        FAdd(FMul(@, trend_decay),
             FMul(market_impact(buy_volume, sell_volume, total_supply),
                  FSub(<<1, 1>>, trend_decay)))]

\* PriceSimulator.add_market_impact: the simulator it leaves
add_market_impact(p, buy_volume, sell_volume, total_supply) ==
    IF total_supply = 0
    THEN p
    ELSE [p EXCEPT !.trend =
            FAdd(FMul(@, trend_decay),
                 FMul(market_impact(buy_volume, sell_volume, total_supply),
                      FSub(<<1, 1>>, trend_decay)))]

InitPriceSim ==
    /\ now = 0
    /\ chain = <<Genesis(0)>>
    /\ pending_transactions = <<>>
    /\ last_block_time = 0
    /\ ledger = <<>>
    /\ ret = NaN
    /\ InitRegistries
    /\ tokenomics = TokenomicsEngine(0, 0, 0, Price(100))
    /\ calls = 0
    /\ \E initial_price \in InitialPrices, volatility \in Volatilities,
          supports \in LevelLists, resistances \in LevelLists,
          trend \in Trends :
          price_sim = [PriceSimulator(initial_price, volatility) EXCEPT
                          !.trend = trend,
                          !.support_levels = supports,
                          !.resistance_levels = resistances]

\* PriceSimulator.update_price(timestamp)
UpdatePrice ==
    /\ calls = 0
    /\ calls' = calls + 1
    /\ \E brownian \in Brownian :
          LET updated == update_price(price_sim,
                                      total_change(price_sim, brownian), now)
          IN  /\ price_sim' = updated
              /\ ret' = updated.current_price
    /\ UNCHANGED <<tokenomics, now>>
    /\ UNCHANGED ledgerVars
    /\ UNCHANGED simVars

\* PriceSimulator.add_market_impact(buy_volume, sell_volume, total_supply)
AddMarketImpact(buy_volume, sell_volume, total_supply) ==
    /\ calls = 0
    /\ calls' = calls + 1
    /\ price_sim' = add_market_impact(price_sim, buy_volume, sell_volume,
                                      total_supply)
    /\ ret' = market_impact(buy_volume, sell_volume, total_supply)
    /\ UNCHANGED <<tokenomics, now>>
    /\ UNCHANGED ledgerVars
    /\ UNCHANGED simVars

PriceSimNext ==
    \/ UpdatePrice
    \/ \E buy_volume \in Volumes, sell_volume \in Volumes,
          total_supply \in ImpactSupplies :
          AddMarketImpact(buy_volume, sell_volume, total_supply)

PriceSimSpec == InitPriceSim /\ [][PriceSimNext]_vars

\* -volatility <= x <= volatility
WithinVolatility(x, p) ==
    /\ ~IsNaN(x)
    /\ ~FLt(x, <<-p.volatility, 100>>)
    /\ ~FLt(<<p.volatility, 100>>, x)

\* C18: after every update_price call, whatever the four components and the
\* positive prior price, the new price is at least the floor price and the
\* fractional change of the tick lies within [-volatility, +volatility].
C18_FloorAndVolatilityCap ==
    [][ UpdatePrice =>
          /\ ~IsNaN(ret')
          /\ ~FLt(ret', floor_price)
          /\ price_sim'.current_price = ret'
          /\ WithinVolatility(
                 price_sim'.price_changes[Len(price_sim'.price_changes)],
                 price_sim) ]_vars


\* ---------------------------------------------------------------------------
\* Claim about should_create_block
\* ---------------------------------------------------------------------------

\* the time of the last sealed block, or of the construction of the ledger
\* when no block has been sealed yet
last_sealed_or_construction ==
    IF Len(chain) > 1 THEN chain[Len(chain)].timestamp ELSE chain[1].timestamp

\* C19: should_create_block returns true if and only if the time elapsed since
\* the last sealed block (since the construction of the ledger when no block
\* has been sealed) is at least the block interval and the pending queue is
\* not empty; it changes no state.
C19_ShouldCreateBlock ==
    [][ ShouldCreateBlock =>
          /\ ret' \in {"True", "False"}
          /\ ret' = "True" <=>
                /\ now - last_sealed_or_construction >= block_time
                /\ Len(pending_transactions) > 0
          /\ UNCHANGED <<chain, pending_transactions, ledger, last_block_time,
                         now>>
          /\ UNCHANGED simVars
          /\ UNCHANGED unitVars ]_vars

\* true exactly one block interval after a sealed block, with a transaction
\* waiting
C19_Witness ==
    /\ ret = "True"
    /\ Len(chain) = 2
    /\ now - chain[2].timestamp = block_time
    /\ Len(pending_transactions) > 0


\* ---------------------------------------------------------------------------
\* Claim about refused starts
\* ---------------------------------------------------------------------------

\* the crypto is unknown, or one of its simulations is Running
UnknownOrRunning(crypto_id) ==
    \/ crypto_id \notin cryptos
    \/ \E s \in DOMAIN simulations :
          simulations[s].crypto_id = crypto_id /\ Running(s)

\* C20: start_simulation for an unknown crypto id, or for a crypto that has a
\* Running simulation, answers with a client error and leaves the system
\* unchanged: no entry is added to simulations or simulation_tasks, no task is
\* created and no simulation's state changes.
C20_RefusedStartChangesNothing ==
    [][ \A crypto_id \in CryptoIds, duration_seconds \in Durations :
          UnknownOrRunning(crypto_id)
          /\ start_simulation(crypto_id, duration_seconds)
          => /\ start_simulation_status(crypto_id) \in {400, 404}
             /\ UNCHANGED simVars ]_vars

\* a start for a known crypto is refused only because one of its simulations
\* is Running: the handler can run and a further simulation would fit
C20_Witness ==
    \E crypto_id \in cryptos :
        /\ ~MidStep
        /\ Len(simulations) < MaxSims
        /\ start_simulation_status(crypto_id) = 400
        /\ \E s \in DOMAIN simulations :
              simulations[s].crypto_id = crypto_id /\ Running(s)


\* ---------------------------------------------------------------------------
\* Claim about refused stops
\* ---------------------------------------------------------------------------

\* C21: stop_simulation for an unknown simulation id answers not-found, and
\* for a simulation that is not Running (Pending, Paused, Completed or Failed)
\* a client error; in both cases no status, ended_at or task changes, so a
\* second stop of the same simulation is always refused.
C21_RefusedStopChangesNothing ==
    [][ \A s \in 1 .. MaxSims :
          /\ ~Running(s) /\ stop_simulation(s)
             => /\ stop_simulation_status(s) =
                      IF s \in DOMAIN simulations THEN 400 ELSE 404
                /\ UNCHANGED simVars
          /\ StopSimulationAccepted(s)
             => /\ stop_simulation_status(s) = 200
                /\ stop_simulation_status(s)' = 400 ]_vars

\* a stopped simulation, for which a second stop is a client error, beside an
\* identifier that names no simulation
C21_Witness ==
    /\ ~MidStep
    /\ Len(simulations) = 1
    /\ simulations[1].status = "paused"
    /\ stop_simulation_status(1) = 400
    /\ stop_simulation_status(2) = 404


\* ---------------------------------------------------------------------------
\* Claim about add_market_impact
\* ---------------------------------------------------------------------------

\* C22: add_market_impact changes only the trend: the current price, the mean
\* price, the price history, the list of changes and the all-time high and low
\* are as before; with a total supply of zero it returns 0 and leaves the
\* trend as it is as well.
C22_ImpactMovesOnlyTrend ==
    [][ \A buy_volume \in Volumes, sell_volume \in Volumes,
           total_supply \in ImpactSupplies :
          AddMarketImpact(buy_volume, sell_volume, total_supply)
          => /\ price_sim' = [price_sim EXCEPT !.trend = price_sim'.trend]
             /\ total_supply = 0
                => /\ ret' = <<0, 1>>
                   /\ price_sim'.trend = price_sim.trend ]_vars

\* the impact of buying 50 out of a supply of 100, blended into the trend of
\* a new simulator
C22_Witness ==
    /\ calls = 1
    /\ ret = <<1, 20>>
    /\ price_sim.trend = <<1, 400>>
    /\ price_sim.price_changes = <<>>
    /\ Len(price_sim.price_history) = 1


\* ---------------------------------------------------------------------------
\* Claim about the read paths
\* ---------------------------------------------------------------------------

\* C23: the read paths (the get_current_state snapshot, get_simulation_state
\* and the get_stats of the ledger, the price process, the tokenomics and the
\* distribution) leave the ledger, the pending queue, the balances, the price
\* process, the tokenomics, the simulation states and the registries as they
\* are, wherever between two ticks they run.
C23_ReadsChangeNothing ==
    [][ \/ \E c \in CryptoIds : GetCurrentState(c)
        \/ \E s \in 1 .. MaxSims : GetSimulationState(s)
        => /\ UNCHANGED simVars
           /\ UNCHANGED ledgerVars
           /\ UNCHANGED unitVars ]_vars

\* between two ticks of a Running simulation, with a transaction waiting in
\* the queue the snapshot counts
C23_Witness ==
    \E s \in DOMAIN simulations :
        /\ ~MidStep
        /\ Running(s)
        /\ tasks[s].pc = "sleeping"
        /\ simulations[s].crypto_id \in cryptos
        /\ simulations[s].transactions_generated > 0
        /\ Len(crypto_data[simulations[s].crypto_id].pending_transactions) > 0


\* ---------------------------------------------------------------------------
\* Claim about a stop and the ticks
\* ---------------------------------------------------------------------------

\* the counters a tick writes in the SimulationState
Counters(sim) ==
    <<sim.elapsed_seconds, sim.transactions_generated, sim.blocks_created,
      sim.holders_count>>

\* C24: a stop request never splits a tick and no tick follows it: when
\* stop_simulation is accepted the task is suspended in the sleep that ends a
\* tick, with every step of the ticks begun so far applied, and after the stop
\* the task of that simulation changes neither the ledger, the pending queue,
\* the tokenomics and the price process of the crypto nor the counters of the
\* simulation.
C24_StopSplitsNoTick ==
    [][ \A s \in DOMAIN simulations :
          /\ StopSimulationAccepted(s)
             => /\ tasks[s].pc = "sleeping"
                /\ crypto_data' = crypto_data
                /\ Counters(simulations'[s]) = Counters(simulations[s])
          /\ simulations[s].status = "paused"
             /\ (run_simulation(s) \/ TaskFault(s))
             => /\ ~(\E gen_tx \in GeneratedTransactions : TaskTick(s, gen_tx))
                /\ crypto_data' = crypto_data
                /\ Counters(simulations'[s]) = Counters(simulations[s]) ]_vars

\* a simulation stopped after its first tick, whose transaction is still in
\* the queue when the cancelled task has ended
C24_Witness ==
    \E s \in DOMAIN simulations :
        /\ simulations[s].status = "paused"
        /\ simulations[s].transactions_generated = 1
        /\ simulations[s].blocks_created = 0
        /\ tasks[s].pc = "done"
        /\ simulations[s].crypto_id \in cryptos
        /\ Len(crypto_data[simulations[s].crypto_id].pending_transactions) = 1


\* ---------------------------------------------------------------------------
\* Claim about block_index
\* ---------------------------------------------------------------------------

\* C25: after BlockchainSimulator.create_block every transaction of the new
\* block has the block's index as its block_index; in every reachable state
\* each transaction stored in the block of index i has block_index i and each
\* transaction in the pending queue has none.
C25_BlockIndexStamped ==
    /\ \A k \in DOMAIN chain :
          /\ chain[k].index = k - 1
          /\ \A i \in DOMAIN chain[k].transactions :
                chain[k].transactions[i].block_index = k - 1
    /\ \A i \in DOMAIN pending_transactions :
          pending_transactions[i].block_index = NoBlockIndex

\* a sealed block with a stamped transaction and a later transaction waiting
C25_Witness ==
    /\ Len(chain) = 2
    /\ Len(chain[2].transactions) = 1
    /\ chain[2].transactions[1].block_index = 1
    /\ Len(pending_transactions) = 1
    /\ pending_transactions[1].block_index = NoBlockIndex


\* ---------------------------------------------------------------------------
\* One simulation of one crypto, tick by tick: the body of the loop of
\* run_simulation with the ledger, the tokenomics and the price process
\* ---------------------------------------------------------------------------

\* draws of generate_transaction: buys from the exchange (which holds 2), sells
\* of W1 (which holds 10) and W2 (which holds 5) and transfers between them
TickGenerated ==
    { [tx_type |-> "buy", from_address |-> exchange_address,
       to_address |-> w, amount |-> a] : w \in Wallets, a \in {1, 2, 3} }
    \cup
    { [tx_type |-> "sell", from_address |-> "W1",
       to_address |-> exchange_address, amount |-> a] : a \in {10, 11} }
    \cup
    { [tx_type |-> "sell", from_address |-> "W2",
       to_address |-> exchange_address, amount |-> a] : a \in {5, 6} }
    \cup
    { [tx_type |-> "transfer", from_address |-> "W1",
       to_address |-> "W2", amount |-> a] : a \in {1, 11} }
    \cup
    { [tx_type |-> "transfer", from_address |-> "W2",
       to_address |-> "W1", amount |-> a] : a \in {5} }

\* the block_reward of the request: none, or more than the supply left to mint
TickBlockRewards == {0, Request.block_reward}

\* draws of random.gauss(0, volatility) in a tick
TickBrownian == {<<-1, 10>>, <<-1, 100>>, <<0, 1>>, <<1, 100>>, <<1, 10>>}

\* the time a tick takes place: at once, or a block interval later
TickDelays == {0, block_time}

\* the instances that initialize_crypto stores and the SimulationState of a
\* task that has reached its loop, with the operations of the current tick
Fresh(block_reward) ==
    [ ledger               |-> initial_distribution,
      pending_transactions |-> <<>>,
      chain                |-> <<Genesis(0)>>,
      last_block_time      |-> 0,
      tokenomics           |->
          TokenomicsEngine(Request.total_supply, block_reward,
                           SumOver(initial_distribution,
                                   DOMAIN initial_distribution),
                           Price(100)),
      price_sim            |-> PriceSimulator(Price(100), 5),
      sim                  |->
          [SimulationState(1, 1) EXCEPT !.status = "running",
                                        !.started_at = TRUE]
          @@ [current_price |-> Price(100), price_history |-> <<>>],
      log                  |-> <<>> ]

\* blockchain.add_transaction(from_addr, to_addr, amount)
tick_add_transaction(m, from, to, amount, t) ==
    IF rejected(m.ledger, from, amount)
    THEN [m EXCEPT !.log = Append(@, "add_transaction")]
    ELSE [m EXCEPT
            !.ledger = update_ledger(m.ledger, from, to, amount),
            !.pending_transactions =
                Blockchain_add_transaction(@, Transaction(from, to, amount, t)),
            !.log = Append(@, "add_transaction")]

\* a routing that counts a transfer as a buy (variant)
pressure_of_TransferBuys(tx_type) ==
    IF tx_type = "sell" THEN "sell" ELSE "buy"

\* lines 104-107: the pressure the type of a transaction adds to
pressure_of(tx_type) ==
    CASE tx_type = "buy" -> "buy"
      [] tx_type = "sell" -> "sell"
      [] OTHER -> "none"

\* lines 100-107: after an accepted transaction, the counter and the pressure
tick_add_pressure(m, gen_tx, accepted) ==
    IF ~accepted
    THEN m
    ELSE [m EXCEPT
            !.sim.transactions_generated = @ + 1,
            !.tokenomics.buy_pressure =
                IF pressure_of(gen_tx.tx_type) = "buy"
                THEN FAdd(@, <<gen_tx.amount, 1>>) ELSE @,
            !.tokenomics.sell_pressure =
                IF pressure_of(gen_tx.tx_type) = "sell"
                THEN FAdd(@, <<gen_tx.amount, 1>>) ELSE @,
            !.log =
                CASE pressure_of(gen_tx.tx_type) = "buy"
                         -> Append(@, "add_buy_pressure")
                  [] pressure_of(gen_tx.tx_type) = "sell"
                         -> Append(@, "add_sell_pressure")
                  [] OTHER -> @]

\* tokenomics.calculate_price(current_time)
tick_calculate_price(m, t) ==
    [m EXCEPT !.tokenomics = after_calculate_price(@, t),
              !.log = Append(@, "calculate_price")]

\* price_sim.add_market_impact(buy_pressure, sell_pressure, circulating_supply)
tick_add_market_impact(m) ==
    [m EXCEPT
        !.price_sim = add_market_impact(@, m.tokenomics.buy_pressure,
                                        m.tokenomics.sell_pressure,
                                        m.tokenomics.circulating_supply),
        !.log = Append(@, "add_market_impact")]

\* lines 117-119: price_sim.update_price(current_time), the state's price and
\* its history
tick_update_price(m, brownian, t) ==
    LET p == update_price(m.price_sim, total_change(m.price_sim, brownian), t)
    IN  [m EXCEPT !.price_sim = p,
                  !.sim.current_price = p.current_price,
                  !.sim.price_history = Append(@, <<t, p.current_price>>),
                  !.log = Append(@, "update_price")]

\* lines 123-124: blockchain.create_block() and the counter of blocks
tick_create_block(m, t) ==
    [m EXCEPT
        !.chain = Append(@, stamp_block_index(
                      Blockchain_create_block(m.chain, m.pending_transactions, t))),
        !.pending_transactions = <<>>,
        !.last_block_time = t,
        !.sim.blocks_created = @ + 1,
        !.log = Append(@, "create_block")]

\* lines 127-129: tokenomics.apply_block_reward("MINER") and the reward
\* transaction
tick_block_reward(m, t) ==
    LET reward == apply_block_reward(m.tokenomics)
        minted == [m EXCEPT
                     !.tokenomics.circulating_supply =
                         IF reward > 0
                         THEN update_supply(m.tokenomics, reward) ELSE @,
                     !.log = Append(@, "apply_block_reward")]
    IN  IF reward > 0
        THEN tick_add_transaction(minted, SYSTEM, "MINER", reward, t)
        ELSE minted

\* the reward is applied before the block is sealed (variant)
seal_and_reward_RewardFirst(m, t) ==
    tick_create_block(tick_block_reward(m, t), t)

\* lines 122-129: the block is sealed, then the reward is applied
seal_and_reward(m, t) ==
    tick_block_reward(tick_create_block(m, t), t)

\* one iteration of the loop of run_simulation at time t; each step is taken
\* on the machine the step before it has left
RunTick(m, gen_tx, brownian, t) ==
    LET accepted == ~rejected(m.ledger, gen_tx.from_address, gen_tx.amount)
    IN  CHOOSE after \in
          { [m6 EXCEPT !.sim.holders_count = get_holder_count] :
            m6 \in { IF should_create_block(t - m5.last_block_time,
                                            m5.pending_transactions)
                     THEN seal_and_reward(m5, t)
                     ELSE m5 :
            m5 \in { tick_update_price(m4, brownian, t) :
            m4 \in { tick_add_market_impact(m3) :
            m3 \in { tick_calculate_price(m2, t) :
            m2 \in { tick_add_pressure(m1, gen_tx, accepted) :
            m1 \in { tick_add_transaction(m0, gen_tx.from_address,
                                          gen_tx.to_address, gen_tx.amount, t) :
            m0 \in { [m EXCEPT !.sim.elapsed_seconds = t, !.log = <<>>] }
            } } } } } } } : TRUE

InitTick ==
    /\ \E block_reward \in TickBlockRewards :
          LET m == Fresh(block_reward)
          IN  /\ ledger = m.ledger
              /\ pending_transactions = m.pending_transactions
              /\ chain = m.chain
              /\ last_block_time = m.last_block_time
              /\ tokenomics = m.tokenomics
              /\ price_sim = m.price_sim
              /\ simulations = <<m.sim>>
              /\ now = m.sim.elapsed_seconds
    /\ ret = <<>>
    /\ calls = 0
    /\ cryptos = {}
    /\ crypto_data = <<>>
    /\ simulation_tasks = {}
    /\ tasks = <<>>

\* the state the variables hold, as the instances of the loop
Machine ==
    [ ledger               |-> ledger,
      pending_transactions |-> pending_transactions,
      chain                |-> chain,
      last_block_time      |-> last_block_time,
      tokenomics           |-> tokenomics,
      price_sim            |-> price_sim,
      sim                  |-> simulations[1],
      log                  |-> <<>> ]

\* one iteration of the loop of run_simulation; ret is the list of the
\* operations it called, in their order
Tick(gen_tx, brownian, t) ==
    /\ calls = 0
    /\ calls' = 1
    /\ now' = t
    /\ \E m \in {RunTick(Machine, gen_tx, brownian, t)} :
           /\ ledger' = m.ledger
           /\ pending_transactions' = m.pending_transactions
           /\ chain' = m.chain
           /\ last_block_time' = m.last_block_time
           /\ tokenomics' = m.tokenomics
           /\ price_sim' = m.price_sim
           /\ simulations' = <<m.sim>>
           /\ ret' = m.log
    /\ UNCHANGED <<cryptos, crypto_data, simulation_tasks, tasks>>

TickNext ==
    \E gen_tx \in TickGenerated, brownian \in TickBrownian, d \in TickDelays :
        Tick(gen_tx, brownian, now + d)

TickSpec == InitTick /\ [][TickNext]_vars


\* ---------------------------------------------------------------------------
\* Claims about a tick
\* ---------------------------------------------------------------------------

\* the transactions the ledger holds, sealed or pending
StoredTransactions(c, pending) ==
    UNION { {c[k].transactions[i] : i \in DOMAIN c[k].transactions} :
              k \in DOMAIN c }
    \cup {pending[i] : i \in DOMAIN pending}

\* the ledger has taken the generated transaction in
Stored(gen_tx, c, pending) ==
    \E tx \in StoredTransactions(c, pending) :
        /\ tx.from_address = gen_tx.from_address
        /\ tx.to_address = gen_tx.to_address
        /\ tx.amount = gen_tx.amount

\* the pressure that calculate_price leaves when amount was added before it
Decayed(pressure, amount) == FMul(FAdd(pressure, <<amount, 1>>), <<9, 10>>)

\* C26: in each tick the amount of the generated transaction is added to the
\* buy pressure if and only if the ledger accepted it and its type is buy, and
\* to the sell pressure if and only if the ledger accepted it and its type is
\* sell; a rejected transaction or an accepted transfer adds to neither, and
\* transactions_generated grows by one if and only if the ledger accepted the
\* transaction.
C26_PressureRouting ==
    [][ \A gen_tx \in TickGenerated, brownian \in TickBrownian,
           d \in TickDelays :
          Tick(gen_tx, brownian, now + d)
          => LET accepted == Stored(gen_tx, chain', pending_transactions')
                 buys == accepted /\ gen_tx.tx_type = "buy"
                 sells == accepted /\ gen_tx.tx_type = "sell"
             IN  /\ tokenomics'.buy_pressure =
                       Decayed(tokenomics.buy_pressure,
                               IF buys THEN gen_tx.amount ELSE 0)
                 /\ tokenomics'.sell_pressure =
                       Decayed(tokenomics.sell_pressure,
                               IF sells THEN gen_tx.amount ELSE 0)
                 /\ simulations'[1].transactions_generated =
                       simulations[1].transactions_generated
                           + (IF accepted THEN 1 ELSE 0)
                 /\ accepted <=> gen_tx.amount <=
                                     get_balance(ledger, gen_tx.from_address)
       ]_vars

\* a tick whose sell of 5 was accepted: 4.5 is left of it in the sell pressure
C26_Witness ==
    /\ calls = 1
    /\ simulations[1].transactions_generated = 1
    /\ tokenomics.sell_pressure = <<9, 2>>
    /\ tokenomics.buy_pressure = <<0, 1>>
    /\ get_balance(ledger, "W2") = 0


\* the operations of a tick up to the new price, for a generated transaction
\* that was accepted or not
PriceOperations(gen_tx, accepted) ==
    <<"add_transaction">>
    \o (CASE accepted /\ gen_tx.tx_type = "buy" -> <<"add_buy_pressure">>
          [] accepted /\ gen_tx.tx_type = "sell" -> <<"add_sell_pressure">>
          [] OTHER -> <<>>)
    \o <<"calculate_price", "add_market_impact", "update_price">>

\* the operations of a tick after the new price, when it seals a block and
\* mints the reward minted
BlockOperations(sealed, minted) ==
    IF ~sealed THEN <<>>
    ELSE <<"create_block", "apply_block_reward">>
         \o (IF minted > 0 THEN <<"add_transaction">> ELSE <<>>)

\* the reward transactions among a sequence of transactions
RewardTransactions(txs) ==
    SelectSeq(txs, LAMBDA tx : tx.from_address = SYSTEM)

\* C27: a tick calls, in this order, add_transaction, the pressure update,
\* calculate_price, add_market_impact and update_price, and then, only if
\* should_create_block holds, create_block followed by apply_block_reward; a
\* reward transaction from SYSTEM to MINER is submitted only in a tick that
\* sealed a block, after the seal, for the amount minted, and not at all when
\* the reward is 0.
C27_TickOrder ==
    [][ \A gen_tx \in TickGenerated, brownian \in TickBrownian,
           d \in TickDelays :
          Tick(gen_tx, brownian, now + d)
          => LET accepted == gen_tx.amount <=
                                 get_balance(ledger, gen_tx.from_address)
                 sealed == Len(chain') = Len(chain) + 1
                 minted == tokenomics'.circulating_supply
                               - tokenomics.circulating_supply
                 rewards == RewardTransactions(pending_transactions')
             IN  /\ ret' = PriceOperations(gen_tx, accepted)
                               \o BlockOperations(sealed, minted)
                 /\ sealed <=> /\ d >= block_time
                               /\ accepted \/ pending_transactions # <<>>
                 /\ ~sealed => /\ chain' = chain
                               /\ minted = 0
                               /\ rewards = <<>>
                 /\ sealed =>
                      /\ Len(chain'[Len(chain')].transactions) =
                             Len(pending_transactions)
                                 + (IF accepted THEN 1 ELSE 0)
                      /\ RewardTransactions(
                             chain'[Len(chain')].transactions) = <<>>
                      /\ minted \in {tokenomics.block_reward,
                                     tokenomics.total_supply
                                         - tokenomics.circulating_supply}
                      /\ minted <= tokenomics.block_reward
                      /\ tokenomics'.circulating_supply
                             <= tokenomics.total_supply
                      /\ pending_transactions' = rewards
                      /\ minted = 0 => rewards = <<>>
                      /\ minted > 0 =>
                           /\ Len(rewards) = 1
                           /\ rewards[1].to_address = "MINER"
                           /\ rewards[1].amount = minted
                           /\ rewards[1].block_index = NoBlockIndex
       ]_vars

\* a tick that sealed a block with its transaction and then queued the reward
C27_Witness ==
    /\ calls = 1
    /\ Len(chain) = 2
    /\ Len(chain[2].transactions) = 1
    /\ Len(pending_transactions) = 1
    /\ pending_transactions[1].from_address = SYSTEM
    /\ pending_transactions[1].amount = 22
    /\ ret = <<"add_transaction", "add_buy_pressure", "calculate_price",
               "add_market_impact", "update_price", "create_block",
               "apply_block_reward", "add_transaction">>


\* the wallets of the generator that hold a strictly positive balance in l
PositiveWallets(l) ==
    {a \in DOMAIN initial_distribution : get_balance(l, a) > 0}

\* C28: after each tick of a running simulation its holders_count equals the
\* number of wallets whose current balance in the ledger is strictly positive.
C28_HoldersCountFollowsLedger ==
    calls = 1 =>
        simulations[1].holders_count = Cardinality(PositiveWallets(ledger))


\* ---------------------------------------------------------------------------
\* Claims about the components of the price process
\* ---------------------------------------------------------------------------

\* support <= price <= 1.05 * support
within_5_percent_above(price, support) ==
    /\ ~FLt(price, support)
    /\ ~FLt(FMul(<<105, 100>>, support), price)

\* 0.95 * resistance <= price <= resistance
within_5_percent_below(price, resistance) ==
    /\ ~FLt(price, FMul(<<95, 100>>, resistance))
    /\ ~FLt(resistance, price)

\* +0.02 for each support level the price sits within 5% above and -0.02 for
\* each resistance level it sits within 5% below, summed
LevelsEffect(p) ==
    LET supports == {i \in DOMAIN p.support_levels :
                        within_5_percent_above(p.current_price,
                                               p.support_levels[i])}
        resistances == {i \in DOMAIN p.resistance_levels :
                           within_5_percent_below(p.current_price,
                                                  p.resistance_levels[i])}
    IN  Norm(<<2 * (Cardinality(supports) - Cardinality(resistances)), 100>>)

\* C29: the support/resistance component of update_price is +0.02 for each
\* support level with support <= price <= 1.05 * support and -0.02 for each
\* resistance level with 0.95 * resistance <= price <= resistance, the
\* contributions of all matching levels being summed.
C29_SupportResistanceComponent ==
    [][ UpdatePrice =>
          support_resistance_effect(price_sim) = LevelsEffect(price_sim)
      ]_vars


\* 0 <= x
NonNegative(x) == ~IsNaN(x) /\ ~FLt(x, <<0, 1>>)

\* after is 0.9 times before, and stays within 0 and before when before is not
\* negative
DecayedOnce(before, after) ==
    /\ after = FMul(before, <<9, 10>>)
    /\ NonNegative(before) => NonNegative(after) /\ ~FLt(before, after)

\* C30: every calculate_price call leaves buy_pressure and sell_pressure at
\* exactly 0.9 times their values before the call, whatever the circulating
\* supply and whether or not the price was clamped; non-negative pressures
\* therefore stay non-negative and do not increase.
C30_PressureDecay ==
    [][ CalculatePrice =>
          /\ DecayedOnce(tokenomics.buy_pressure, tokenomics'.buy_pressure)
          /\ DecayedOnce(tokenomics.sell_pressure, tokenomics'.sell_pressure)
      ]_vars

\* a call with nothing circulating whose price was raised to min_price: the
\* pressures 10 and 200 are left at 9 and 180
C30_Witness ==
    /\ calls = 1
    /\ tokenomics.circulating_supply = 0
    /\ tokenomics.buy_pressure = <<9, 1>>
    /\ tokenomics.sell_pressure = <<180, 1>>
    /\ ret = min_price
    /\ tokenomics.current_price = min_price


\* ---------------------------------------------------------------------------
\* Claims about the transactions the ledger holds
\* ---------------------------------------------------------------------------

\* the transactions of the blocks in chain order, then the pending ones
RECURSIVE SealedTransactions(_)
SealedTransactions(c) ==
    IF c = <<>> THEN <<>>
    ELSE SealedTransactions(SubSeq(c, 1, Len(c) - 1)) \o c[Len(c)].transactions

AllTransactions(c, pending) == SealedTransactions(c) \o pending

\* C31: the hash of a transaction is derived at its creation from (sender,
\* receiver, amount, timestamp) and no later operation changes it: every
\* transaction the ledger holds keeps its hash through every step, the step
\* that seals it and stamps its block index included.
C31_HashDerivedOnce ==
    [][ LET before == AllTransactions(chain, pending_transactions)
            after == AllTransactions(chain', pending_transactions')
        IN  /\ Len(after) >= Len(before)
            /\ \A i \in DOMAIN before : after[i].tx_hash = before[i].tx_hash
            /\ \A i \in DOMAIN after :
                   after[i].tx_hash = <<after[i].from_address,
                                        after[i].to_address,
                                        after[i].amount, after[i].timestamp>>
      ]_vars

\* a sealed transaction, stamped with the index of its block, that holds the
\* hash of its creation
C31_Witness ==
    /\ Len(chain) = 2
    /\ pending_transactions = <<>>
    /\ Len(chain[2].transactions) = 2
    /\ \A i \in 1 .. 2 :
          /\ chain[2].transactions[i].block_index = 1
          /\ chain[2].transactions[i].tx_hash =
                 <<chain[2].transactions[i].from_address,
                   chain[2].transactions[i].to_address,
                   chain[2].transactions[i].amount,
                   chain[2].transactions[i].timestamp>>


\* the hashes of a sequence of transactions
Hashes(txs) == [i \in DOMAIN txs |-> txs[i].tx_hash]

\* C36: after any sequence of add_transaction and create_block calls every
\* accepted transaction is in exactly one place, the pending queue or one
\* block, none lost and none duplicated: an accepted add_transaction adds one
\* transaction to those held, at the end of the queue, and no other call
\* changes the transactions held, so that the number accepted is the length
\* of the queue plus the number of transactions in all blocks.
C36_HeldExactlyOnce ==
    [][ LET before == Hashes(AllTransactions(chain, pending_transactions))
            after == Hashes(AllTransactions(chain', pending_transactions'))
            accepted == \E from \in Senders, to \in Holders, amount \in Amounts :
                            AddTransactionAccepted(from, to, amount)
        IN  /\ Len(after) = get_total_transactions(chain')
                                + Len(pending_transactions')
            /\ accepted =>
                 /\ Len(after) = Len(before) + 1
                 /\ SubSeq(after, 1, Len(before)) = before
                 /\ Len(pending_transactions') = Len(pending_transactions) + 1
                 /\ chain' = chain
            /\ ~accepted => after = before
            /\ CreateBlock => pending_transactions' = <<>>
      ]_vars

\* a transaction accepted after a block was sealed: one is in the block, one
\* in the queue
C36_Witness ==
    /\ ret = "Transaction"
    /\ Len(chain) = 2
    /\ get_total_transactions(chain) = 1
    /\ Len(pending_transactions) = 1
    /\ pending_transactions[1].tx_hash # chain[2].transactions[1].tx_hash

\* ---------------------------------------------------------------------------
\* modules/transaction_generator.py: the generator on its own
\*
\* An address is the digest of its prefix and of two draws of the random
\* generator; it is written <<prefix, n>>, n being the number of addresses
\* derived before it, so that two derivations never give the same address.
\* The generator of a crypto is the entry tx_generator of its crypto_data.
\* ---------------------------------------------------------------------------

MaxGenCalls == 3    \* calls made on a generator
MaxWallets == 2     \* the count given to initialize_wallets

\* the amounts random.uniform and round give
GenDrawnAmounts == {1, 5000}

\* exclude = None
NoAddress == <<"", -1>>

\* TransactionGenerator._generate_address: the address and the generator left
generate_address(g, prefix) ==
    [ address   |-> <<prefix, g.generated>>,
      generator |-> [g EXCEPT !.generated = @ + 1] ]

\* TransactionGenerator.__init__
TransactionGenerator ==
    [ wallets          |-> <<>>,
      exchange_address |-> <<"EXCHANGE", 0>>,
      treasury_address |-> <<"TREASURY", 1>>,
      generated        |-> 2 ]

\* initialize_wallets, line 65: count addresses W0, W1, ...
RECURSIVE generate_wallets(_, _)
generate_wallets(g, count) ==
    IF count = 0 THEN [g EXCEPT !.wallets = <<>>]
    ELSE LET before == generate_wallets(g, count - 1)
             made == generate_address(before, "W")
         IN  [made.generator EXCEPT !.wallets = Append(before.wallets,
                                                       made.address)]

\* a choice among all the wallets, the excluded one too (variant)
candidates_IgnoreExclude(g, exclude) == DOMAIN g.wallets

\* line 97: the positions of the wallets other than exclude
candidates(g, exclude) == {i \in DOMAIN g.wallets : g.wallets[i] # exclude}

\* TransactionGenerator.get_random_wallet: the addresses it can return, each
\* with the generator it leaves
get_random_wallet(g, exclude) ==
    IF candidates(g, exclude) = {}
    THEN {generate_address(g, "NEW")}
    ELSE {[address |-> g.wallets[i], generator |-> g] :
              i \in candidates(g, exclude)}

\* TransactionGenerator.generate_transaction: the transactions it can return,
\* each with the generator it leaves
generate_transaction(g) ==
    UNION {
      { [tx |-> [tx_type |-> "buy", from_address |-> g.exchange_address,
                 to_address |-> to.address, amount |-> amount],
         generator |-> to.generator] :
            to \in get_random_wallet(g, NoAddress) }
      \cup
      { [tx |-> [tx_type |-> "sell", from_address |-> from.address,
                 to_address |-> g.exchange_address, amount |-> amount],
         generator |-> from.generator] :
            from \in get_random_wallet(g, NoAddress) }
      \cup
      UNION { { [tx |-> [tx_type |-> "transfer",
                         from_address |-> from.address,
                         to_address |-> to.address, amount |-> amount],
                 generator |-> to.generator] :
                    to \in get_random_wallet(from.generator, from.address) } :
              from \in get_random_wallet(g, NoAddress) }
      : amount \in GenDrawnAmounts }

InitGen ==
    /\ now = 0
    /\ chain = <<Genesis(0)>>
    /\ pending_transactions = <<>>
    /\ last_block_time = 0
    /\ ledger = <<>>
    /\ ret = <<>>
    /\ InitUnits
    /\ cryptos = {1}
    /\ crypto_data = <<[tx_generator |-> TransactionGenerator]>>
    /\ simulations = <<>>
    /\ simulation_tasks = {}
    /\ tasks = <<>>

\* tx_generator.initialize_wallets(count, initial_supply): the wallets
InitializeWallets ==
    /\ calls < MaxGenCalls
    /\ calls' = calls + 1
    /\ \E count \in 0 .. MaxWallets :
          crypto_data' = [crypto_data EXCEPT ![1].tx_generator =
                              generate_wallets(@, count)]
    /\ UNCHANGED <<ret, now, tokenomics, price_sim>>
    /\ UNCHANGED <<cryptos, simulations, simulation_tasks, tasks>>
    /\ UNCHANGED ledgerVars

\* tx_generator.generate_transaction()
GenerateTransaction ==
    /\ calls < MaxGenCalls
    /\ calls' = calls + 1
    /\ \E made \in generate_transaction(crypto_data[1].tx_generator) :
          /\ ret' = <<made.tx>>
          /\ crypto_data' = [crypto_data EXCEPT ![1].tx_generator =
                                 made.generator]
    /\ UNCHANGED <<now, tokenomics, price_sim>>
    /\ UNCHANGED <<cryptos, simulations, simulation_tasks, tasks>>
    /\ UNCHANGED ledgerVars

GenNext == InitializeWallets \/ GenerateTransaction

GenSpec == InitGen /\ [][GenNext]_vars

\* C32: whatever the number of wallets, none and one included, a generated
\* transfer has a sender other than its receiver, a generated buy has the
\* exchange address as its sender and a generated sell has the exchange
\* address as its receiver.
C32_GeneratedEndpoints ==
    [][ GenerateTransaction =>
          LET tx == ret'[1]
              exchange == crypto_data[1].tx_generator.exchange_address
          IN  /\ tx.tx_type = "transfer" => tx.from_address # tx.to_address
              /\ tx.tx_type = "buy" => tx.from_address = exchange
              /\ tx.tx_type = "sell" => tx.to_address = exchange
      ]_vars

\* a transfer generated with one wallet: it goes to an address made for it
C32_Witness ==
    /\ Len(crypto_data[1].tx_generator.wallets) = 1
    /\ ret # <<>>
    /\ ret[1].tx_type = "transfer"
    /\ ret[1].from_address = crypto_data[1].tx_generator.wallets[1]
    /\ ret[1].to_address[1] = "NEW"


\* ---------------------------------------------------------------------------
\* routers/websocket.py: the simulation section of a snapshot
\* ---------------------------------------------------------------------------

\* active_sim = None
NoSimulation == 0

\* get_current_state, lines 60-65: the first simulation of the registry, in
\* the order the simulations were started, that is on the crypto
active_sim(crypto_id) ==
    LET on_crypto == {s \in DOMAIN simulations :
                         simulations[s].crypto_id = crypto_id}
    IN  IF on_crypto = {} THEN NoSimulation
        ELSE CHOOSE s \in on_crypto : \A other \in on_crypto : s <= other

\* C33: whenever a crypto has a simulation in status Running, the simulation
\* section of the snapshot get_current_state returns for that crypto describes
\* that Running simulation, whatever earlier simulations the crypto has.
\* The snapshot is taken by a handler, which runs between the steps of the
\* tasks.
C33_SnapshotShowsRunning ==
    \A crypto_id \in cryptos :
        (/\ ~MidStep
         /\ \E s \in DOMAIN simulations :
                /\ simulations[s].crypto_id = crypto_id
                /\ simulations[s].status = "running")
        => /\ active_sim(crypto_id) # NoSimulation
           /\ simulations[active_sim(crypto_id)].status = "running"


\* ---------------------------------------------------------------------------
\* modules/ai_integration.py and routers/ai.py: generate_crypto_code
\*
\* The text of an AI response is taken by what _extract_json makes of it:
\* nothing, a JSON object, or another JSON value (truthy or falsy).  A JSON
\* value is written <<type, text>>.
\* ---------------------------------------------------------------------------

NumericFields == {"total_supply", "initial_price", "inflation_rate",
                  "block_reward"}

\* the values an object of the response gives a numeric field
JsonValues == {<<"number", "7">>, <<"string", "7">>, <<"string", "many">>,
               <<"null", "">>}

\* the number a numeric text stands for
NumberOf(text) ==
    CASE text = "7" -> <<7, 1>>
      [] text = "10000000" -> <<10000000, 1>>
      [] text = "0.05" -> <<1, 20>>
      [] text = "0.015" -> <<3, 200>>
      [] text = "25" -> <<25, 1>>

NumericTexts == {"7", "10000000", "0.05", "0.015", "25"}

\* AIIntegration._generate_default_crypto, its numeric fields
generate_default_crypto ==
    [f \in NumericFields |->
        CASE f = "total_supply" -> <<"number", "10000000">>
          [] f = "initial_price" -> <<"number", "0.05">>
          [] f = "inflation_rate" -> <<"number", "0.015">>
          [] f = "block_reward" -> <<"number", "25">>]

\* the defaults of parsed.get(field, default), lines 182-185
get_default(f) ==
    CASE f = "total_supply" -> <<1000000, 1>>
      [] f = "initial_price" -> <<1, 100>>
      [] f = "inflation_rate" -> <<1, 50>>
      [] f = "block_reward" -> <<50, 1>>

\* what _extract_json returns for the responses tried: None, an object with
\* any of the numeric fields, a truthy value that is no object, a falsy one
Responses ==
    {[kind |-> "none", fields |-> <<>>],
     [kind |-> "array", fields |-> <<>>],
     [kind |-> "falsy", fields |-> <<>>]}
    \cup
    UNION { {[kind |-> "object", fields |-> fields] :
                 fields \in [present -> JsonValues]} :
            present \in SUBSET NumericFields }

\* float(x) raises ValueError for a text that is no number and TypeError for
\* None
float_raises(v) ==
    \/ v[1] = "null"
    \/ v[1] = "string" /\ v[2] \notin NumericTexts

\* float(x) of a number or of a numeric text
py_float(v) == NumberOf(v[2])

\* lines 175-177: parsed, or the default crypto when parsed is falsy
parsed_or_default(response) ==
    IF \/ response.kind \in {"none", "falsy"}
       \/ response.kind = "object" /\ response.fields = <<>>
    THEN [kind |-> "object", fields |-> generate_default_crypto]
    ELSE response

\* float(parsed.get(field, default)), lines 182-185
parsed_get(parsed, f) ==
    IF f \notin DOMAIN parsed.fields
    THEN [raises |-> FALSE, value |-> get_default(f)]
    ELSE IF float_raises(parsed.fields[f])
         THEN [raises |-> TRUE, value |-> NaN]
         ELSE [raises |-> FALSE, value |-> py_float(parsed.fields[f])]

\* AIIntegration.generate_crypto_code from the parsed response on, behind the
\* except clause of the endpoint: the status and the numeric fields of the
\* answer
generate_crypto_code(response) ==
    LET parsed == parsed_or_default(response)
    IN  IF \/ parsed.kind # "object"
           \/ \E f \in NumericFields : parsed_get(parsed, f).raises
        THEN [response |-> response, status |-> 500, bundle |-> <<>>]
        ELSE [response |-> response, status |-> 200,
              bundle |-> [f \in NumericFields |-> parsed_get(parsed, f).value]]

InitAI ==
    /\ now = 0
    /\ chain = <<Genesis(0)>>
    /\ pending_transactions = <<>>
    /\ last_block_time = 0
    /\ ledger = <<>>
    /\ ret = <<>>
    /\ InitUnits
    /\ InitRegistries

\* POST /api/ai/generate-code; ret is the answer with the response it is for
GenerateCryptoCode ==
    /\ calls = 0
    /\ calls' = 1
    /\ \E response \in Responses : ret' = <<generate_crypto_code(response)>>
    /\ UNCHANGED <<now, tokenomics, price_sim>>
    /\ UNCHANGED ledgerVars
    /\ UNCHANGED simVars

AISpec == InitAI /\ [][GenerateCryptoCode]_vars

\* a number: not the value of a failed conversion
IsNumber(x) == Len(x) = 2 /\ x[2] # 0

\* C34: for every AI response text, unparseable, parseable with numeric
\* fields missing, or parseable with numeric fields that hold non-numeric
\* values, generate_crypto_code answers with a bundle whose total_supply,
\* initial_price, inflation_rate and block_reward are numbers, and the request
\* does not fail.
C34_MalformedResponseDefaults ==
    [][ GenerateCryptoCode =>
          /\ ret'[1].status = 200
          /\ \A f \in NumericFields : IsNumber(ret'[1].bundle[f])
      ]_vars


\* ---------------------------------------------------------------------------
\* Claims about the runs of the simulation loop
\* ---------------------------------------------------------------------------

\* C35: from initialize_crypto onward and after any number of ticks, block
\* seals and block rewards, over successive runs on the same crypto, the sum
\* of the balances of the ledger equals the circulating_supply of the
\* tokenomics engine.
C35_BalancesSumToSupply ==
    \A c \in DOMAIN crypto_data :
        SumOver(crypto_data[c].ledger, DOMAIN crypto_data[c].ledger)
            = crypto_data[c].circulating_supply

\* a second run on a crypto whose first run has sealed a block and paid the
\* reward: what was minted is what MINER holds
C35_Witness ==
    /\ Len(simulations) = 2
    /\ simulations[1].status = "completed"
    /\ simulations[2].status = "running"
    /\ simulations[2].crypto_id = simulations[1].crypto_id
    /\ simulations[2].transactions_generated > 0
    /\ LET d == crypto_data[simulations[1].crypto_id]
       IN  /\ Len(d.chain) > 1
           /\ get_balance(d.ledger, "MINER") = 22
           /\ d.circulating_supply = d.total_supply


\* C37: every block the simulation loop seals holds at least one transaction:
\* in every chain the runs produce, the genesis block is the only block with
\* an empty list of transactions.
C37_NoEmptySealedBlock ==
    \A c \in DOMAIN crypto_data :
        /\ crypto_data[c].chain[1].transactions = <<>>
        /\ \A i \in 2 .. Len(crypto_data[c].chain) :
               Len(crypto_data[c].chain[i].transactions) > 0

\* a chain the loop has extended twice: the second block it sealed holds the
\* reward transaction of the first
C37_Witness ==
    \E c \in DOMAIN crypto_data :
        /\ Len(crypto_data[c].chain) = 3
        /\ crypto_data[c].chain[3].transactions[1].from_address = SYSTEM
        /\ \E s \in DOMAIN simulations :
               simulations[s].crypto_id = c /\ simulations[s].blocks_created > 0


\* SimulationState.progress
progress(sim) ==
    IF sim.duration_seconds = 0 THEN <<1, 1>>
    ELSE py_min(<<1, 1>>,
                FDivInt(<<sim.elapsed_seconds, 1>>, sim.duration_seconds))

\* C38: whenever the status of a simulation is Completed, its elapsed_seconds
\* is at least its duration_seconds, its progress is 1.0, and it was not
\* stopped: it becomes Completed from Running only, by the end of the loop and
\* never by the loop's exit on a status other than Running.
C38_CompletedRanItsDuration ==
    [][ \A s \in DOMAIN simulations' :
          simulations'[s].status = "completed" =>
            /\ simulations'[s].elapsed_seconds >= simulations'[s].duration_seconds
            /\ progress(simulations'[s]) = <<1, 1>>
            /\ s \in DOMAIN simulations
            /\ simulations[s].status \in {"running", "completed"}
            /\ simulations[s].status = "running" =>
                   /\ TaskExit(s)
                   /\ ~loop_continues(simulations[s])
      ]_vars

====
